---- MODULE Spec2Model ----
(***************************************************************************)
(* arducap: ArduPilot DataFlash log -> MCAP converter.                     *)
(*                                                                         *)
(* The model follows one session of process_ardupilot_file                 *)
(* (src/src/pipeline.rs): ArduReader::read decodes one frame at a time     *)
(* from the input file, the pipeline registers definitions with the        *)
(* transformers, dispatches data records to the subscribed transformers    *)
(* and writes every produced message through the channel map.             *)
(*                                                                         *)
(* The input file is read strictly forward, so its content is chosen       *)
(* frame by frame at the moment read() consumes it.  A choice "the file    *)
(* ends here" is final: the session then finishes, fails or panics.        *)
(*                                                                         *)
(* Number representation.  The program's integers are 64 bit words         *)
(* (i64, u64).  A word is written as its four 16-bit limbs, least          *)
(* significant first, so that sign, wrap-around and overflow are computed  *)
(* at the program's width.  An f64 is written as sign and magnitude of an  *)
(* integer (its limbs, least significant first): latitude/longitude in     *)
(* the file's fixed-point unit (1e-7 degree), altitude in centimetres,     *)
(* attitude in centi-degrees.  Finite floats with a fractional part are    *)
(* outside the values the model writes; NaN and the infinities are.        *)
(***************************************************************************)
EXTENDS Integers, Sequences, FiniteSets, TLC

\* ------------------------------------------------------------------ bounds

\* Frames (definition or data) whose header one session reads.
MaxFrames == 4

\* Definition frames among them.
MaxDefs == 2

\* ------------------------------------------------------- program constants

\* reader.rs:190  `if header.msg_id == 128`
FMT_ID == 128

\* reader.rs:16-25  FmtPacket body: 1 + 1 + 4 + 16 + 64 bytes
FMT_BODY_LEN == 86

\* reader.rs:8-11  PacketHeader: 2 magic bytes + msg_id
HEADER_LEN == 3

\* reader.rs:243  `v * 1000`
US_TO_NS == 1000

\* transformers.rs:292  `lat.abs() > 0.1` with lat = raw / 1.0e7
LatThreshold == 1000000

\* transformers.rs:288  GPS altitude is centimetres (x 0.01), POS is metres
CM_PER_M == 100

GPS == "GPS"
ATT == "ATT"
POS == "POS"

\* ------------------------------------------------------------ small helpers

EmptyMap == [x \in {} |-> x]

Put(m, k, v) == [x \in (DOMAIN m) \cup {k} |-> IF x = k THEN v ELSE m[x]]

Abs(x) == IF x < 0 THEN -x ELSE x

RECURSIVE SumTo(_, _)
SumTo(f, n) == IF n = 0 THEN 0 ELSE f[n] + SumTo(f, n - 1)

\* ------------------------------------------------------------------ numbers

\* reader.rs:35-36  LogValue::Int(i64), LogValue::UInt(u64): 64-bit words of
\* four 16-bit limbs, least significant first.
Limb == 2^16

ZeroWord == <<0, 0, 0, 0>>

\* The word of a natural number below 2^31.
WordOf(n) == <<n % Limb, n \div Limb, 0, 0>>

\* Two's complement negation of a word.
Neg64(w) ==
    LET c1 == (Limb - 1 - w[1]) + 1
        c2 == (Limb - 1 - w[2]) + c1 \div Limb
        c3 == (Limb - 1 - w[3]) + c2 \div Limb
        c4 == (Limb - 1 - w[4]) + c3 \div Limb
    IN  <<c1 % Limb, c2 % Limb, c3 % Limb, c4 % Limb>>

\* The i64 word of an integer of magnitude below 2^31.
I64(n) == IF n >= 0 THEN WordOf(n) ELSE Neg64(WordOf(-n))

\* The sign of a word read as i64; for a u64 "the value is above i64::MAX".
SignBit(w) == w[4] >= Limb \div 2

\* reader.rs:106-109  `u8/u16/u32::read_le(reader)? as u64`: the low `width`
\* bytes of the field, zero extended.
ZeroExtend(w, width) ==
    CASE width = 1 -> <<w[1] % 256, 0, 0, 0>>
      [] width = 2 -> <<w[1], 0, 0, 0>>
      [] width = 4 -> <<w[1], w[2], 0, 0>>
      [] OTHER -> w

\* reader.rs:100-103  `i8/i16/i32::read_le(reader)? as i64`: the low `width`
\* bytes of the field, sign extended.
SignExtend(w, width) ==
    LET ones == Limb - 1
        z == ZeroExtend(w, width)
    IN  CASE width = 1 /\ z[1] >= 128 -> <<z[1] + (Limb - 256), ones, ones, ones>>
          [] width = 2 /\ z[1] >= Limb \div 2 -> <<z[1], ones, ones, ones>>
          [] width = 4 /\ z[2] >= Limb \div 2 -> <<z[1], z[2], ones, ones>>
          [] OTHER -> z

\* Magnitudes: limbs, least significant first, no leading zero limb.
RECURSIVE Trim(_)
Trim(m) ==
    IF m # <<>> /\ m[Len(m)] = 0 THEN Trim(SubSeq(m, 1, Len(m) - 1)) ELSE m

\* m + c for a carry c below 2^16.
RECURSIVE BigAdd(_, _)
BigAdd(m, c) ==
    IF c = 0 THEN m
    ELSE IF m = <<>> THEN <<c>>
    ELSE <<(m[1] + c) % Limb>> \o BigAdd(Tail(m), (m[1] + c) \div Limb)

\* m * k + carry for a factor k below 2^15.
RECURSIVE BigMul(_, _, _)
BigMul(m, k, carry) ==
    IF m = <<>> THEN (IF carry = 0 THEN <<>> ELSE <<carry>>)
    ELSE <<(m[1] * k + carry) % Limb>>
            \o BigMul(Tail(m), k, (m[1] * k + carry) \div Limb)

\* a > b
RECURSIVE BigGt(_, _)
BigGt(a, b) ==
    IF Len(a) # Len(b) THEN Len(a) > Len(b)
    ELSE IF a = <<>> THEN FALSE
    ELSE IF a[Len(a)] # b[Len(b)] THEN a[Len(a)] > b[Len(b)]
    ELSE BigGt(SubSeq(a, 1, Len(a) - 1), SubSeq(b, 1, Len(b) - 1))

\* m mod n for a modulus n below 2^23 (a limb is taken as two bytes).
RECURSIVE BigMod(_, _)
BigMod(m, n) ==
    IF m = <<>> THEN 0
    ELSE LET r == BigMod(Tail(m), n)
         IN  ((((r * 256) % n) * 256) + m[1]) % n

RECURSIVE BitLen(_)
BitLen(x) == IF x = 0 THEN 0 ELSE 1 + BitLen(x \div 2)

\* The f64 of a small integer.
Flt(n) == [neg |-> n < 0, mag |-> Trim(<<Abs(n) % Limb, Abs(n) \div Limb>>)]

\* Significant bits of a magnitude.
Bits(m) == IF m = <<>> THEN 0 ELSE 16 * (Len(m) - 1) + BitLen(m[Len(m)])

\* m rounded to a multiple of `unit` (a power of two up to 2^11), `low`
\* being m mod unit: to nearest, ties to the even multiple.
RoundLow(m, unit, low) ==
    IF low * 2 > unit \/ (low * 2 = unit /\ (m[1] \div unit) % 2 = 1)
    THEN BigAdd([m EXCEPT ![1] = m[1] - low], unit)
    ELSE [m EXCEPT ![1] = m[1] - low]

RoundBits(m, sh) == IF sh <= 0 THEN m ELSE RoundLow(m, 2^sh, m[1] % (2^sh))

\* `as f64` on a magnitude below 2^64: round to nearest, ties to even, at 53
\* significant bits.
RoundF64(m) == RoundBits(m, Bits(m) - 53)

\* `v as f64` for an i64 word and for a u64 word.
I64ToF64(w) ==
    [neg |-> SignBit(w),
     mag |-> RoundF64(Trim(IF SignBit(w) THEN Neg64(w) ELSE w))]

U64ToF64(w) == [neg |-> FALSE, mag |-> RoundF64(Trim(w))]

\* ------------------------------------------------------------- field codec

\* reader.rs:80-92  field_length: Ok(width) or Err for a tag outside the set.
field_length_i_is_two(fmt_char) ==
    CASE fmt_char \in {"b", "B", "M"} -> [ok |-> TRUE, len |-> 1]
      [] fmt_char \in {"h", "c", "H", "C", "i"} -> [ok |-> TRUE, len |-> 2]
      [] fmt_char \in {"L", "I", "E", "e", "f", "n"} -> [ok |-> TRUE, len |-> 4]
      [] fmt_char \in {"q", "Q", "d"} -> [ok |-> TRUE, len |-> 8]
      [] fmt_char = "N" -> [ok |-> TRUE, len |-> 16]
      [] fmt_char = "Z" -> [ok |-> TRUE, len |-> 64]
      [] OTHER -> [ok |-> FALSE, len |-> 0]

field_length_unknown_is_one(fmt_char) ==
    CASE fmt_char \in {"b", "B", "M"} -> [ok |-> TRUE, len |-> 1]
      [] fmt_char \in {"h", "c", "H", "C"} -> [ok |-> TRUE, len |-> 2]
      [] fmt_char \in {"i", "L", "I", "E", "e", "f", "n"} -> [ok |-> TRUE, len |-> 4]
      [] fmt_char \in {"q", "Q", "d"} -> [ok |-> TRUE, len |-> 8]
      [] fmt_char = "N" -> [ok |-> TRUE, len |-> 16]
      [] fmt_char = "Z" -> [ok |-> TRUE, len |-> 64]
      [] OTHER -> [ok |-> TRUE, len |-> 1]

field_length(fmt_char) ==
    CASE fmt_char \in {"b", "B", "M"} -> [ok |-> TRUE, len |-> 1]
      [] fmt_char \in {"h", "c", "H", "C"} -> [ok |-> TRUE, len |-> 2]
      [] fmt_char \in {"i", "L", "I", "E", "e", "f", "n"} -> [ok |-> TRUE, len |-> 4]
      [] fmt_char \in {"q", "Q", "d"} -> [ok |-> TRUE, len |-> 8]
      [] fmt_char = "N" -> [ok |-> TRUE, len |-> 16]
      [] fmt_char = "Z" -> [ok |-> TRUE, len |-> 64]
      [] OTHER -> [ok |-> FALSE, len |-> 0]

\* reader.rs:98-133  the LogValue variant parse_value builds for a tag.
ValueKind(fmt_char) ==
    CASE fmt_char \in {"b", "h", "c", "i", "L", "e", "q"} -> "Int"
      [] fmt_char \in {"B", "M", "H", "C", "I", "E", "Q"} -> "UInt"
      [] fmt_char = "f" -> "Float"
      [] fmt_char = "d" -> "Double"
      [] fmt_char \in {"n", "N", "Z"} -> "Str"
      [] OTHER -> "None"

\* reader.rs:98-133  bytes parse_value asks the source for.
ReadWidth(fmt_char) ==
    CASE fmt_char \in {"b", "B", "M"} -> 1
      [] fmt_char \in {"h", "c", "H", "C"} -> 2
      [] fmt_char \in {"i", "L", "e", "I", "E", "f", "n"} -> 4
      [] fmt_char \in {"q", "Q", "d"} -> 8
      [] fmt_char = "N" -> 16
      [] fmt_char = "Z" -> 64
      [] OTHER -> 0

\* reader.rs:98-133  the value a field holds.  For the integer tags `raw` is
\* a word whose low bytes are the field and the value is their sign or zero
\* extension; for the float tags `raw` is the float the bytes encode (finite,
\* NaN or infinite); for the text tags `raw` stands for the sanitized text.
Decoded(fmt_char, raw) ==
    CASE ValueKind(fmt_char) = "Int" -> SignExtend(raw, ReadWidth(fmt_char))
      [] ValueKind(fmt_char) = "UInt" -> ZeroExtend(raw, ReadWidth(fmt_char))
      [] OTHER -> raw

\* reader.rs:94-134  parse_value on a source with `remaining` unread bytes,
\* the next bytes encoding `raw`.  Result: ok, the LogValue, the error kind
\* and how far the stream position moved.  A failed binrw read_le seeks back
\* to where it started (binrw's BinRead for the integer and float types
\* takes stream_position() first and restores it when read_exact fails, and
\* so does the derived BinRead of PacketHeader and FmtPacket); a failed
\* read_exact on the file itself (tags n, N, Z) leaves the position at the
\* end of the file.
parse_value(fmt_char, remaining, raw) ==
    IF ValueKind(fmt_char) = "None"
    THEN [ok |-> FALSE, err |-> "Unknown format char", moved |-> 0,
          val |-> [k |-> "None", v |-> ZeroWord]]
    ELSE IF remaining >= ReadWidth(fmt_char)
    THEN [ok |-> TRUE, err |-> "", moved |-> ReadWidth(fmt_char),
          val |-> [k |-> ValueKind(fmt_char), v |-> Decoded(fmt_char, raw)]]
    ELSE [ok |-> FALSE, err |-> "UnexpectedEof",
          moved |-> IF ValueKind(fmt_char) = "Str" THEN remaining ELSE 0,
          val |-> [k |-> "None", v |-> ZeroWord]]

\* A float a field of tag f or d can hold: finite (integer valued here),
\* NaN, or an infinity.
Finite(x) == [c |-> "finite", neg |-> x.neg, mag |-> x.mag]
NaN == [c |-> "nan", neg |-> FALSE, mag |-> <<>>]
Infinity(neg) == [c |-> "inf", neg |-> neg, mag |-> <<>>]

\* reader.rs:61,68  v.is_finite()
is_finite(v) == v.c = "finite"

\* reader.rs:54-77  From<LogValue> for Value.  json!(i64) is a negative or a
\* non-negative JSON integer, json!(u64) a non-negative one; a float that
\* is not finite becomes null.
ToJson(val) ==
    CASE val.k = "Int" -> [t |-> "int", neg |-> SignBit(val.v), v |-> val.v]
      [] val.k = "UInt" -> [t |-> "int", neg |-> FALSE, v |-> val.v]
      [] val.k \in {"Float", "Double"} ->
            IF is_finite(val.v)
            THEN [t |-> "float", v |-> [neg |-> val.v.neg, mag |-> val.v.mag]]
            ELSE [t |-> "null"]
      [] OTHER -> [t |-> "string", v |-> val.v]

\* reader.rs:243,246  `v * 1000` on u64 (an i64 is cast by `v as u64`, which
\* keeps the word): the product by a factor b below 2^15.  ovf: the product
\* leaves u64; v: the wrapped product.
MulU64(a, b) ==
    LET p1 == a[1] * b
        p2 == a[2] * b + p1 \div Limb
        p3 == a[3] * b + p2 \div Limb
        p4 == a[4] * b + p3 \div Limb
    IN  [ovf |-> p4 \div Limb # 0,
         v |-> <<p1 % Limb, p2 % Limb, p3 % Limb, p4 % Limb>>]

\* ------------------------------------------------------------------ inputs

\* Type ids used by definition frames and message ids used by data frames.
TypeIds == {1, 2}

\* FmtPacket bodies a definition frame may carry (type_id is chosen apart):
\* name, format_str as its characters, labels as the comma separated pieces.
\*   GPS  TimeUS (unsigned) and Lat        GPS' the same name, another layout
\*   POS  Lat only, one label more than tags
\*   ATT  TimeUS (signed) only
\*   VAL  one text field, no TimeUS, a name the fused transformer ignores
\*   SHRT two tags, one label              SHRX the same with an unknown tag
\*   BAD  an unknown tag after a known one, labels for both
FmtBodies ==
    { [name |-> GPS, format_str |-> <<"Q", "L">>, labels |-> <<"TimeUS", "Lat">>],
      [name |-> GPS, format_str |-> <<"L">>, labels |-> <<"Lat">>],
      [name |-> POS, format_str |-> <<"L">>, labels |-> <<"Lat", "Alt">>],
      [name |-> ATT, format_str |-> <<"q">>, labels |-> <<"TimeUS">>],
      [name |-> "VAL", format_str |-> <<"n">>, labels |-> <<"V">>],
      [name |-> "SHRT", format_str |-> <<"n", "B">>, labels |-> <<"V">>],
      [name |-> "SHRX", format_str |-> <<"n", "X">>, labels |-> <<>>],
      [name |-> "BAD", format_str |-> <<"B", "X">>, labels |-> <<"V", "W">>] }

\* Bytes of a field that are still present when the file ends inside it.
TruncOffsets == {0, 3}

\* Ways the 3-byte header read can fail (reader.rs:179-188).
HeaderFailures == {"exhausted", "partial", "bad_magic", "io_fault"}

\* The value of a field the inputs do not vary.
DefaultRaw(fmt_char) ==
    IF ValueKind(fmt_char) \in {"Float", "Double"} THEN Finite(Flt(7))
    ELSE WordOf(7)

\* 2^62 microseconds: as a u64 TimeUS its product by 1000 wraps to 0.
TwoTo62 == <<0, 0, 0, Limb \div 4>>

\* Raw field values written in a complete data record, by tag and label.
FieldInputs(fmt_char, label) ==
    IF label = "TimeUS"
    THEN (IF ValueKind(fmt_char) = "Int" THEN {I64(-1), I64(0), I64(2)}
          ELSE {WordOf(1), TwoTo62})
    ELSE IF label = "Lat" THEN {WordOf(0), WordOf(2000000)}
    ELSE IF ValueKind(fmt_char) \in {"Float", "Double"}
    THEN (IF label = "Alt" THEN {Finite(Flt(7)), NaN}
          ELSE {Finite(Flt(7)), NaN, Infinity(FALSE), Infinity(TRUE)})
    ELSE {DefaultRaw(fmt_char)}

\* ------------------------------------------------------------------ reader

\* reader.rs:193-197  labels.split(",") (trimmed): the empty string splits
\* into one empty label.
SplitLabels(labels) == IF labels = <<>> THEN <<"">> ELSE labels

\* reader.rs:199-202  ArduDefinition built from a decoded FmtPacket.
MakeDefinition(type_id, body) ==
    [ardu_fmt |-> [type_id |-> type_id, name |-> body.name,
                   format_str |-> body.format_str],
     labels |-> SplitLabels(body.labels)]

LabelAt(definition, idx) ==
    IF idx <= Len(definition.labels) THEN definition.labels[idx] ELSE ""

Widths(definition) ==
    [i \in 1..Len(definition.ardu_fmt.format_str) |->
        ReadWidth(definition.ardu_fmt.format_str[i])]

\* Bytes of a complete data record body under a definition.
BodyLen(definition) ==
    SumTo(Widths(definition), Len(definition.ardu_fmt.format_str))

\* Bodies of complete data records of a definition: one raw value per tag.
RECURSIVE ValuesUpTo(_, _)
ValuesUpTo(definition, n) ==
    IF n = 0 THEN {<<>>}
    ELSE {Append(vals, raw) :
            vals \in ValuesUpTo(definition, n - 1),
            raw \in FieldInputs(definition.ardu_fmt.format_str[n],
                                LabelAt(definition, n))}

RecordValues(definition) ==
    ValuesUpTo(definition, Len(definition.ardu_fmt.format_str))

DefaultValues(definition) ==
    [i \in 1..Len(definition.ardu_fmt.format_str) |->
        DefaultRaw(definition.ardu_fmt.format_str[i])]

\* Byte counts left in the file after the header of a data record when the
\* file ends inside the record (or, at an unknown tag, shortly after it).
TruncatedLengths(definition) ==
    LET n == Len(definition.ardu_fmt.format_str)
        w == Widths(definition)
    IN  {SumTo(w, k - 1) + j : k \in 1..n, j \in TruncOffsets} \
          {a \in 0..(BodyLen(definition) + 3) :
              /\ a >= BodyLen(definition)
              /\ \A i \in 1..n : w[i] > 0}

\* reader.rs:253-257  the record's timestamp and the carried timestamp.
\* `current_ts > 0` on a u64 is "not zero".
KeepOwnTimestamp(current_ts) == current_ts # ZeroWord

CarryTimestamp_reset(current_ts, last) ==
    [current_ts |-> current_ts, last_timestamp |-> current_ts]

CarryTimestamp(current_ts, last) ==
    IF KeepOwnTimestamp(current_ts)
    THEN [current_ts |-> current_ts, last_timestamp |-> current_ts]
    ELSE [current_ts |-> last, last_timestamp |-> last]

\* reader.rs:212-251  the field loop of read() for a data record: `avail`
\* bytes of the file follow the header, `vals` are the values encoded there,
\* `checks` tells whether the build panics on integer overflow.
\* Result kinds: ArduMessage (all fields decoded), Eof (line 233), Err
\* (lines 225, 237), Panic (line 215 index out of range, line 246 overflow).
\* short: the field whose bytes ran out; bad: the unknown tag reached;
\* pos: the stream position relative to the record body.
RECURSIVE DecodeFields(_, _, _, _, _, _, _, _, _)
DecodeFields(definition, vals, avail, checks, idx, pos, current_ts, json_obj, ovf) ==
    LET fmt == definition.ardu_fmt.format_str
    IN  IF idx > Len(fmt)
        THEN [kind |-> "ArduMessage", err |-> "", current_ts |-> current_ts,
              json_obj |-> json_obj, pos |-> pos, short |-> 0, bad |-> 0,
              ovf |-> ovf]
        ELSE
        LET c == fmt[idx]
            val == parse_value(c, avail - pos, vals[idx])
            current_pos == pos + val.moved
            shortIdx == IF val.err = "UnexpectedEof" THEN idx ELSE 0
            badIdx == IF val.err = "Unknown format char" THEN idx ELSE 0
            stop(kind, err) ==
                [kind |-> kind, err |-> err, current_ts |-> ZeroWord,
                 json_obj |-> EmptyMap, pos |-> current_pos,
                 short |-> shortIdx, bad |-> badIdx, ovf |-> ovf]
        IN  IF idx > Len(definition.labels)
            THEN stop("Panic", "index out of bounds")
            ELSE IF ~val.ok
            THEN LET field_len == field_length(c)
                 IN  IF ~field_len.ok
                     THEN stop("Err", "unexpcted char")
                     ELSE IF current_pos + field_len.len > avail
                     THEN stop("Eof", "")
                     ELSE stop("Err", val.err)
            ELSE LET label == definition.labels[idx]
                     isTs == label = "TimeUS" /\ val.val.k \in {"Int", "UInt"}
                     ns == MulU64(val.val.v, US_TO_NS)
                 IN  IF isTs /\ ns.ovf /\ checks
                     THEN [stop("Panic", "multiply with overflow")
                              EXCEPT !.ovf = TRUE]
                     ELSE DecodeFields(definition, vals, avail, checks, idx + 1,
                                       current_pos,
                                       IF isTs THEN ns.v ELSE current_ts,
                                       Put(json_obj, label, ToJson(val.val)),
                                       ovf \/ (isTs /\ ns.ovf))

DecodeRecord(definition, vals, avail, checks) ==
    DecodeFields(definition, vals, avail, checks, 1, 0, ZeroWord, EmptyMap, FALSE)

\* ------------------------------------------------------------------- state

VARIABLES
    pc,              \* "create" | "read" | "frame" | "dispatch" | "done" | "failed" | "panicked"
    frame,           \* what the last read() returned (pipeline.rs:44)
    file,            \* ArduReader.file: "None" | "Open"
    definitions,     \* ArduReader.definitions: type_id -> ArduDefinition
    last_timestamp,  \* ArduReader.last_timestamp
    subscriptions,   \* pipeline: type_id -> transformer indices
    channel_map,     \* pipeline: <<topic, schema_name>> -> McapChannelInfo
    cur,             \* pipeline: subscribed transformers already called for the record
    out_msgs,        \* pipeline: messages of the current transformer not yet written
    schemas,         \* GenericTransformer.schemas: type_id -> <<name, schema bytes>>
    topic_map,       \* FoxgloveFusedTransformer.topic_map: type_id -> name
    has_seen_pos,    \* FoxgloveFusedTransformer.has_seen_pos
    home,            \* FoxgloveFusedTransformer.home (Option)
    current_pos,     \* FoxgloveFusedTransformer.current_pos
    current_att,     \* FoxgloveFusedTransformer.current_att
    w_schemas,       \* mcap writer: schemas registered, in id order
    w_channels,      \* mcap writer: channels registered, in id order
    written,         \* mcap writer: messages appended, in order
    mcap_file,       \* the output file: "None" | "Created"
    error,           \* the Err returned by process_ardupilot_file, or the panic message
    \* history, not program state
    nframes,         \* frames whose header was read, of those held against MaxFrames
    ndefs,           \* definition frames among them
    last_read,       \* what the last read() call met
    records,         \* data records returned by read(), in order
    calls,           \* transform calls, in order
    accepted,        \* <<transformer, type_id>> for which wants returned true
    first_registered, \* type_id -> the first definition registered for it
    add_calls,       \* add_schema / add_channel calls, in order
    build            \* "any" | "debug" | "release": overflow checks, once they mattered

vars == <<pc, frame, file, definitions, last_timestamp, subscriptions, channel_map,
          cur, out_msgs, schemas, topic_map, has_seen_pos, home, current_pos,
          current_att, w_schemas, w_channels, written, mcap_file, error, nframes, ndefs,
          last_read, records, calls, accepted, first_registered, add_calls,
          build>>

readerVars == <<definitions, last_timestamp>>
pipelineVars == <<subscriptions, channel_map, cur, out_msgs>>
genericVars == <<schemas>>
fusedVars == <<topic_map, has_seen_pos, home, current_pos, current_att>>
writerVars == <<w_schemas, w_channels, written, add_calls, mcap_file>>
dispatchHistory == <<calls, accepted, first_registered>>

NoFrame == [kind |-> "None"]
NoRead == [op |-> "none", msg_id |-> 0, short |-> 0, bad |-> 0, why |-> "",
           kind |-> "None", avail |-> 0, left |-> 0, after_eof |-> FALSE]
\* transformers.rs:115-116  (0.0, 0.0, 0.0)
Origin == <<Flt(0), Flt(0), Flt(0)>>
None == [some |-> FALSE, v |-> Origin]
Some(x) == [some |-> TRUE, v |-> x]

\* pipeline.rs:36-39  the transformer list; positions are 1-based here.
GENERIC == 1
FUSED == 2
Transformers == <<GENERIC, FUSED>>

\* reader.rs:162-169, pipeline.rs:28  the session after ArduReader::new:
\* nothing is opened or created yet.  The transformers, the channel map and
\* the subscriptions (pipeline.rs:34-41, transformers.rs:41-45, 112-120)
\* are built without a failure exit once the writer exists and are written
\* here with their initial values.
Init ==
    /\ pc = "create"
    /\ frame = NoFrame
    /\ file = "None"
    /\ definitions = EmptyMap
    /\ last_timestamp = ZeroWord
    /\ subscriptions = EmptyMap
    /\ channel_map = EmptyMap
    /\ cur = 0
    /\ out_msgs = <<>>
    /\ schemas = EmptyMap
    /\ topic_map = EmptyMap
    /\ has_seen_pos = FALSE
    /\ home = None
    /\ current_pos = Origin
    /\ current_att = Origin
    /\ w_schemas = <<>>
    /\ w_channels = <<>>
    /\ written = <<>>
    /\ mcap_file = "None"
    /\ error = ""
    /\ nframes = 0
    /\ ndefs = 0
    /\ last_read = NoRead
    /\ records = <<>>
    /\ calls = <<>>
    /\ accepted = {}
    /\ first_registered = EmptyMap
    /\ add_calls = <<>>
    /\ build = "any"

\* ------------------------------------------------------ the output file

\* pipeline.rs:31-32  `File::create(mcap_filename)?` and
\* `Writer::new(mcap_file)?` succeed: the output file exists (created or
\* truncated) before the input is opened.
CreateOutput ==
    /\ pc = "create"
    /\ pc' = "read"
    /\ mcap_file' = "Created"
    /\ UNCHANGED <<frame, file, readerVars, pipelineVars, genericVars, fusedVars,
                   w_schemas, w_channels, written, add_calls, error, nframes,
                   ndefs, last_read, records, dispatchHistory, build>>

\* pipeline.rs:31-32  one of the two fails and its error leaves
\* process_ardupilot_file before read() is called: File::create (the file
\* is not created) or Writer::new (it is).
CreateOutputFails(step) ==
    /\ pc = "create"
    /\ pc' = "failed"
    /\ error' = step
    /\ mcap_file' = IF step = "Writer::new" THEN "Created" ELSE "None"
    /\ UNCHANGED <<frame, file, readerVars, pipelineVars, genericVars, fusedVars,
                   w_schemas, w_channels, written, add_calls, nframes,
                   ndefs, last_read, records, dispatchHistory, build>>

\* ----------------------------------------------------------- ArduReader::read

\* History: the call being made follows a call that returned Eof at a clean
\* frame boundary or inside a data record.
AfterEof ==
    \/ last_read.after_eof
    \/ /\ last_read.kind = "Eof"
       /\ \/ last_read.op = "data"
          \/ last_read.op = "header" /\ last_read.why = "exhausted"

\* reader.rs:179-234  a call that returned Eof met the end of the file (or a
\* wrong marker), so what the next call finds at the stream position is
\* fixed; only an I/O fault leaves it open.
EndKnown ==
    /\ last_read.kind = "Eof"
    /\ ~(last_read.op = "header" /\ last_read.why = "io_fault")

\* The header read can fail with `why`.  After a header failure the position
\* is where it was, so the failure repeats; after a data record cut short the
\* position is where the failed field read left it, last_read.left bytes
\* before the end of the file, and these bytes are read as a header.
HeaderCanFail(why) ==
    IF ~EndKnown THEN TRUE
    ELSE IF last_read.op = "header" THEN why = last_read.why
    ELSE why = (IF last_read.left = 0 THEN "exhausted"
                ELSE IF last_read.left < HEADER_LEN THEN "partial"
                ELSE "bad_magic")

\* A header can be read and `needed` body bytes can follow it.
HeaderCanParse(needed) ==
    IF ~EndKnown THEN TRUE
    ELSE /\ last_read.op = "data"
         /\ last_read.left >= HEADER_LEN + needed

\* A header can be read and the file ends `avail` bytes after it.
HeaderThenEnd(avail) ==
    IF ~EndKnown THEN TRUE
    ELSE /\ last_read.op = "data"
         /\ last_read.left = HEADER_LEN + avail

\* reader.rs:172-174  the first read() opens the file; a failure propagates.
ReadOpenFails ==
    /\ pc = "read"
    /\ file = "None"
    /\ pc' = "failed"
    /\ error' = "Failed opening file"
    /\ last_read' = [NoRead EXCEPT !.op = "open", !.kind = "Err"]
    /\ UNCHANGED <<frame, file, readerVars, pipelineVars, genericVars, fusedVars,
                   writerVars, nframes, ndefs, records, dispatchHistory, build>>

\* reader.rs:179-188  the header cannot be read: the source is exhausted at
\* the frame boundary, ends inside the header, holds another marker, or the
\* read fails otherwise.  Both error arms return Ok(Eof).
HeaderFailureResult(why) == [kind |-> "Eof"]

ReadHeaderFails(why) ==
    /\ pc = "read"
    /\ HeaderCanFail(why)
    /\ file' = "Open"
    /\ frame' = HeaderFailureResult(why)
    /\ pc' = IF frame'.kind = "Eof" THEN "frame" ELSE "failed"
    /\ error' = IF frame'.kind = "Eof" THEN error ELSE why
    /\ last_read' = [NoRead EXCEPT !.op = "header", !.why = why,
                                   !.kind = frame'.kind, !.after_eof = AfterEof]
    /\ UNCHANGED <<readerVars, pipelineVars, genericVars, fusedVars, writerVars,
                   nframes, ndefs, records, dispatchHistory, build>>

\* reader.rs:190-207  a complete definition frame: stored by type_id (last
\* write wins) and returned.
ReadDefinition(type_id, body) ==
    /\ pc = "read"
    /\ nframes < MaxFrames
    /\ ndefs < MaxDefs
    /\ HeaderCanParse(FMT_BODY_LEN)
    /\ file' = "Open"
    /\ LET definition == MakeDefinition(type_id, body)
       IN  /\ definitions' = Put(definitions, type_id, definition)
           /\ frame' = [kind |-> "ArduDefinition", definition |-> definition]
    /\ pc' = "frame"
    /\ nframes' = nframes + 1
    /\ ndefs' = ndefs + 1
    /\ last_read' = [NoRead EXCEPT !.op = "definition", !.msg_id = FMT_ID,
                                   !.kind = "ArduDefinition",
                                   !.after_eof = AfterEof]
    /\ UNCHANGED <<last_timestamp, pipelineVars, genericVars, fusedVars,
                   writerVars, error, records, dispatchHistory, build>>

\* reader.rs:191  `FmtPacket::read(file)?` when fewer than 86 bytes follow
\* the header: the error propagates out of read().
ReadDefinitionTruncated(avail) ==
    /\ pc = "read"
    /\ nframes < MaxFrames
    /\ avail < FMT_BODY_LEN
    /\ HeaderThenEnd(avail)
    /\ file' = "Open"
    /\ pc' = "failed"
    /\ error' = "UnexpectedEof"
    /\ nframes' = nframes + 1
    /\ last_read' = [NoRead EXCEPT !.op = "definition", !.msg_id = FMT_ID,
                                   !.short = 1, !.kind = "Err", !.avail = avail,
                                   !.left = avail, !.after_eof = AfterEof]
    /\ UNCHANGED <<frame, readerVars, pipelineVars, genericVars, fusedVars,
                   writerVars, ndefs, records, dispatchHistory, build>>

\* reader.rs:208  the lookup that decides between decoding and line 268.
HasDefinition(msg_id) == msg_id \in DOMAIN definitions

\* reader.rs:268-272  what read() returns for an id without a definition.
UnknownIdResult_eof(msg_id) == [kind |-> "Eof", err |-> ""]

UnknownIdResult(msg_id) == [kind |-> "Err", err |-> "Unknown msg ID"]

\* reader.rs:208-266  a data frame of a defined type.
ReadData(msg_id, vals, avail, checks) ==
    /\ pc = "read"
    /\ nframes < MaxFrames
    /\ msg_id # FMT_ID
    /\ HasDefinition(msg_id)
    /\ IF avail < BodyLen(definitions[msg_id])
       THEN HeaderThenEnd(avail) ELSE HeaderCanParse(avail)
    /\ file' = "Open"
    /\ nframes' = nframes + 1
    /\ LET definition == definitions[msg_id]
           d == DecodeRecord(definition, vals, avail, checks)
           t == CarryTimestamp(d.current_ts, last_timestamp)
           message == [type_id |-> msg_id, current_ts |-> t.current_ts,
                       json_obj |-> d.json_obj]
       IN  /\ build \in {"any", IF checks THEN "debug" ELSE "release"}
           /\ build' = IF d.ovf THEN (IF checks THEN "debug" ELSE "release")
                       ELSE build
           /\ last_read' = [op |-> "data", msg_id |-> msg_id, short |-> d.short,
                            bad |-> d.bad, why |-> "", kind |-> d.kind,
                            avail |-> avail, left |-> avail - d.pos,
                            after_eof |-> AfterEof]
           /\ CASE d.kind = "ArduMessage" ->
                    /\ last_timestamp' = t.last_timestamp
                    /\ frame' = [kind |-> "ArduMessage", message |-> message]
                    /\ records' = Append(records,
                          [type_id |-> msg_id, current_ts |-> t.current_ts,
                           name |-> definition.ardu_fmt.name,
                           labels |-> definition.labels,
                           json_obj |-> d.json_obj])
                    /\ pc' = "frame"
                    /\ error' = error
                [] d.kind = "Eof" ->
                    /\ frame' = [kind |-> "Eof"]
                    /\ pc' = "frame"
                    /\ UNCHANGED <<last_timestamp, records, error>>
                [] d.kind = "Err" ->
                    /\ pc' = "failed"
                    /\ error' = d.err
                    /\ UNCHANGED <<last_timestamp, records, frame>>
                [] OTHER ->
                    /\ pc' = "panicked"
                    /\ error' = d.err
                    /\ UNCHANGED <<last_timestamp, records, frame>>
    /\ UNCHANGED <<definitions, pipelineVars, genericVars, fusedVars, writerVars,
                   ndefs, dispatchHistory>>

\* reader.rs:268-272  a data frame whose id has no definition.
ReadUnknown(msg_id) ==
    /\ pc = "read"
    /\ nframes < MaxFrames
    /\ msg_id # FMT_ID
    /\ ~HasDefinition(msg_id)
    /\ HeaderCanParse(0)
    /\ file' = "Open"
    /\ nframes' = nframes + 1
    /\ LET r == UnknownIdResult(msg_id)
       IN  /\ pc' = IF r.kind = "Err" THEN "failed" ELSE "frame"
           /\ error' = r.err
           /\ frame' = IF r.kind = "Err" THEN frame ELSE [kind |-> r.kind]
           /\ last_read' = [NoRead EXCEPT !.op = "unknown", !.msg_id = msg_id,
                                          !.kind = r.kind,
                                          !.after_eof = AfterEof]
    /\ UNCHANGED <<readerVars, pipelineVars, genericVars, fusedVars, writerVars,
                   ndefs, records, dispatchHistory, build>>

\* ------------------------------------------------------------- transformers

NoValue == [some |-> FALSE, v |-> ZeroWord]

OrElse(a, b) == IF a.some THEN a ELSE b

UnwrapOr(a, default) == IF a.some THEN a.v ELSE default

\* serde_json Value::as_i64: a JSON integer that fits i64; a non-negative
\* one above i64::MAX, a float, null and a string give None.
as_i64(value) ==
    IF value.t = "int" /\ (value.neg \/ ~SignBit(value.v))
    THEN [some |-> TRUE, v |-> value.v] ELSE NoValue

\* serde_json Value::as_f64: every JSON number, converted with `as f64`
\* (a negative integer from its i64, a non-negative one from its u64).
as_f64(value) ==
    CASE value.t = "int" ->
            [some |-> TRUE,
             v |-> IF value.neg THEN I64ToF64(value.v) ELSE U64ToF64(value.v)]
      [] value.t = "float" -> [some |-> TRUE, v |-> value.v]
      [] OTHER -> [some |-> FALSE, v |-> Flt(0)]

\* transformers.rs:281  json.get(k).and_then(|v| v.as_i64())
get_int(json, k) == IF k \in DOMAIN json THEN as_i64(json[k]) ELSE NoValue

\* transformers.rs:282  json.get(k).and_then(|v| v.as_f64())
get_flt(json, k) ==
    IF k \in DOMAIN json THEN as_f64(json[k])
    ELSE [some |-> FALSE, v |-> Flt(0)]

\* transformers.rs:6-20  the schema document: title and one property per label.
generate_json_schema(fmt, labels) ==
    [title |-> fmt.name, properties |-> {labels[i] : i \in 1..Len(labels)}]

\* transformers.rs:49-57  GenericTransformer::check_registered_to_transform:
\* the entry stored for the definition's type_id.
GenericEntry(definition) ==
    <<definition.ardu_fmt.name,
      generate_json_schema(definition.ardu_fmt, definition.labels)>>

\* transformers.rs:51-54  self.schemas.insert(type_id, (name, schema bytes)):
\* the entry of a type_id is overwritten by every registration.
GenericRegister_keep_first(definition) ==
    IF definition.ardu_fmt.type_id \in DOMAIN schemas
    THEN schemas
    ELSE Put(schemas, definition.ardu_fmt.type_id, GenericEntry(definition))

GenericRegister(definition) ==
    Put(schemas, definition.ardu_fmt.type_id, GenericEntry(definition))

\* transformers.rs:59-69  GenericTransformer::transform
GenericTransform(msg) ==
    IF msg.type_id \notin DOMAIN schemas
    THEN [panic |-> TRUE, out |-> <<>>, name |-> ""]
    ELSE LET name == schemas[msg.type_id][1]
             schema_bytes == schemas[msg.type_id][2]
         IN  [panic |-> FALSE,
              name |-> name,
              out |-> << [topic |-> <<"/ardupilot/", name>>,
                          schema_name |-> name,
                          schema_encoding |-> "jsonschema",
                          schema_data |-> schema_bytes,
                          payload |-> msg.json_obj] >>]

\* Exact arithmetic for the quaternion: the number (a + b * sqrt(2)) / d.
Surd(a, b, d) == [a |-> a, b |-> b, d |-> d]

SurdMul(x, y) ==
    Surd(x.a * y.a + 2 * x.b * y.b, x.a * y.b + x.b * y.a, x.d * y.d)

\* Sum and difference of numbers over one denominator.
SurdAdd(x, y) == Surd(x.a + y.a, x.b + y.b, x.d)

SurdNeg(x) == Surd(-x.a, -x.b, x.d)

SurdSub(x, y) == SurdAdd(x, SurdNeg(y))

SurdEq(x, y) == x.a * y.d = y.a * x.d /\ x.b * y.d = y.b * x.d

\* 2^31 - 1 centi-degrees.  transformers.rs:125-135 computes the half angle
\* as the f64 `(cd / 100.0).to_radians() * 0.5`, whose rounding error grows
\* with the angle: up to this magnitude cos and sin of a whole number of
\* quarter turns are the exact values to within 1e-10, above it they are not
\* (9000 * 2^49 gives w = 0.99985, not 1).
AngleLimit == <<Limb - 1, Limb \div 2 - 1>>

\* The angle (in centi-degrees) is a whole number of quarter turns of a
\* magnitude up to AngleLimit.
WholeQuarterTurns(cd) ==
    ~BigGt(cd.mag, AngleLimit) /\ BigMod(cd.mag, 9000) = 0

\* transformers.rs:125-127, 130-135  `((cd / 100.0).to_radians() * 0.5)`
\* for an angle of whole quarter turns up to AngleLimit: the half angle in
\* eighths of a turn (45 degrees = 4500 centi-degrees), modulo a whole
\* turn.  For any other angle the half angle is not a whole number of
\* eighths and no value is given.
HalfAngle(cd) ==
    IF WholeQuarterTurns(cd)
    THEN [exact |-> TRUE,
          eighths |-> IF cd.neg THEN (8 - BigMod(cd.mag, 72000) \div 9000) % 8
                      ELSE BigMod(cd.mag, 72000) \div 9000]
    ELSE [exact |-> FALSE]

\* cos of k eighths of a turn, over the denominator 2.
CosEighths(k) ==
    CASE k % 8 = 0 -> Surd(2, 0, 2)
      [] k % 8 \in {1, 7} -> Surd(0, 1, 2)
      [] k % 8 \in {2, 6} -> Surd(0, 0, 2)
      [] k % 8 \in {3, 5} -> Surd(0, -1, 2)
      [] OTHER -> Surd(-2, 0, 2)

\* sin x = cos (x - a quarter turn)
SinEighths(k) == CosEighths(k + 6)

\* transformers.rs:130-141  the quaternion in the NED frame, <<x, y, z, w>>.
NedProducts(cr, sr, cp, sp, cy, sy) ==
    LET m3(a, b, c) == SurdMul(SurdMul(a, b), c)
        q_w == SurdAdd(m3(cr, cp, cy), m3(sr, sp, sy))
        q_x == SurdSub(m3(sr, cp, cy), m3(cr, sp, sy))
        q_y == SurdAdd(m3(cr, sp, cy), m3(sr, cp, sy))
        q_z == SurdSub(m3(cr, cp, sy), m3(sr, sp, cy))
    IN  <<q_x, q_y, q_z, q_w>>

NedQuat(roll_cd, pitch_cd, yaw_cd) ==
    NedProducts(CosEighths(HalfAngle(roll_cd).eighths),
                SinEighths(HalfAngle(roll_cd).eighths),
                CosEighths(HalfAngle(pitch_cd).eighths),
                SinEighths(HalfAngle(pitch_cd).eighths),
                CosEighths(HalfAngle(yaw_cd).eighths),
                SinEighths(HalfAngle(yaw_cd).eighths))

\* transformers.rs:123-151  euler_to_quat: NED to ENU, (x, -y, -z, w).  For
\* angles of whole quarter turns the components are computed exactly; for
\* any other angle they are not of the form (a + b * sqrt(2)) / d and the
\* result is left as the function applied to its arguments.
Unevaluated(roll_cd, pitch_cd, yaw_cd) ==
    [f |-> "euler_to_quat", roll_cd |-> roll_cd, pitch_cd |-> pitch_cd,
     yaw_cd |-> yaw_cd]

\* transformers.rs:150  (q_x, -q_y, -q_z, q_w)
NedToEnu(q) == <<q[1], SurdNeg(q[2]), SurdNeg(q[3]), q[4]>>

euler_to_quat_ned(roll_cd, pitch_cd, yaw_cd) ==
    IF WholeQuarterTurns(roll_cd) /\ WholeQuarterTurns(pitch_cd)
          /\ WholeQuarterTurns(yaw_cd)
    THEN NedQuat(roll_cd, pitch_cd, yaw_cd)
    ELSE Unevaluated(roll_cd, pitch_cd, yaw_cd)

euler_to_quat(roll_cd, pitch_cd, yaw_cd) ==
    IF WholeQuarterTurns(roll_cd) /\ WholeQuarterTurns(pitch_cd)
          /\ WholeQuarterTurns(yaw_cd)
    THEN NedToEnu(NedQuat(roll_cd, pitch_cd, yaw_cd))
    ELSE Unevaluated(roll_cd, pitch_cd, yaw_cd)

\* transformers.rs:249-259  FoxgloveFusedTransformer::check_registered_to_transform
FusedWants(definition) == definition.ardu_fmt.name \in {GPS, ATT, POS}

\* transformers.rs:252-258  the topic_map entry made when the definition is
\* accepted.
FusedRegister_forget(definition) == topic_map

FusedRegister(definition) ==
    IF FusedWants(definition)
    THEN Put(topic_map, definition.ardu_fmt.type_id, definition.ardu_fmt.name)
    ELSE topic_map

\* transformers.rs:268-270  priority suppression of GPS once POS was seen.
Suppressed_never(topic_name) == FALSE

Suppressed(topic_name) == topic_name = GPS /\ has_seen_pos

\* transformers.rs:292  home is frozen by the first position with a
\* non-trivial latitude: `self.home.is_none() && lat.abs() > 0.1`.
AbsGt(x, n) == BigGt(x.mag, Flt(n).mag)

SetsHome_every(home_now, lat) == AbsGt(lat, LatThreshold)

SetsHome(home_now, lat) == ~home_now.some /\ AbsGt(lat, LatThreshold)

\* transformers.rs:334  `if let Some(..) = self.home`, evaluated after the
\* position branch may have set home.
EmitsTransform_home_before(home_before, home_after) == home_before.some

EmitsTransform(home_before, home_after) == home_after.some

FoxgloveMessage(topic, schema_name, schema, payload) ==
    [topic |-> <<"/foxglove/", topic>>, schema_name |-> schema_name,
     schema_encoding |-> "jsonschema", schema_data |-> schema, payload |-> payload]

\* transformers.rs:291-363  the part of transform after the values were
\* read from the record: lla is <<lat, lon, alt>>, att the record's
\* <<roll, pitch, yaw>>, sets_home the condition of line 292.
FusedOutput(msg, topic_name, lla, att, sets_home) ==
    LET has_position == topic_name = GPS \/ topic_name = POS
        home1 == IF sets_home THEN Some(lla) ELSE home
        pos1 == IF has_position THEN lla ELSE current_pos
        att1 == IF topic_name = ATT THEN att ELSE current_att
        anchor == IF sets_home
                  THEN << FoxgloveMessage("map_origin", "foxglove.LocationFix",
                                          "LOCATION_FIX_SCHEMA",
                                          [frame_id |-> "world", lla |-> lla]) >>
                  ELSE <<>>
        trace == IF has_position
                 THEN << FoxgloveMessage("gps", "foxglove.LocationFix",
                                         "LOCATION_FIX_SCHEMA",
                                         [frame_id |-> "base_link", lla |-> lla]) >>
                 ELSE <<>>
        tf == IF EmitsTransform(home, home1)
              THEN << FoxgloveMessage("base_link_transform", "foxglove.FrameTransform",
                                      "FRAME_TRANSFORM_SCHEMA",
                                      [timestamp |-> msg.current_ts,
                                       position |-> pos1, origin |-> home1.v,
                                       rotation |-> euler_to_quat(att1[1], att1[2],
                                                                  att1[3])]) >>
              ELSE <<>>
    IN  [panic |-> FALSE, out |-> anchor \o trace \o tf, name |-> topic_name,
         has_seen_pos |-> (has_seen_pos \/ topic_name = POS),
         home |-> home1, current_pos |-> pos1, current_att |-> att1]

\* transformers.rs:281-289  lat, lon and alt read from the record.
FusedPosition(json, topic_name, raw_alt) ==
    << I64ToF64(UnwrapOr(OrElse(get_int(json, "Lat"), get_int(json, "Latitude")),
                         ZeroWord)),
       I64ToF64(UnwrapOr(OrElse(get_int(json, "Lng"), get_int(json, "Longitude")),
                         ZeroWord)),
       IF topic_name = GPS THEN raw_alt
       ELSE [neg |-> raw_alt.neg, mag |-> BigMul(raw_alt.mag, CM_PER_M, 0)] >>

\* transformers.rs:329-333  roll, pitch and yaw read from the record.
FusedAttitude(json) ==
    << UnwrapOr(get_flt(json, "Roll"), Flt(0)),
       UnwrapOr(get_flt(json, "Pitch"), Flt(0)),
       UnwrapOr(get_flt(json, "Yaw"), Flt(0)) >>

\* transformers.rs:291-292  a position record that sets home.
FusedSetsHome(topic_name, lla) ==
    (topic_name = GPS \/ topic_name = POS) /\ SetsHome(home, lla[1])

FusedValues(msg, topic_name, lla, att) ==
    FusedOutput(msg, topic_name, lla, att, FusedSetsHome(topic_name, lla))

\* transformers.rs:261-366  FoxgloveFusedTransformer::transform: the output
\* and the transformer's fields after the call.
FusedTransform(msg) ==
    IF msg.type_id \notin DOMAIN topic_map
    THEN [panic |-> TRUE, out |-> <<>>, name |-> "",
          has_seen_pos |-> has_seen_pos, home |-> home,
          current_pos |-> current_pos, current_att |-> current_att]
    ELSE IF Suppressed(topic_map[msg.type_id])
    THEN [panic |-> FALSE, out |-> <<>>, name |-> topic_map[msg.type_id],
          has_seen_pos |-> has_seen_pos, home |-> home,
          current_pos |-> current_pos, current_att |-> current_att]
    ELSE FusedValues(msg, topic_map[msg.type_id],
                     FusedPosition(msg.json_obj, topic_map[msg.type_id],
                                   UnwrapOr(OrElse(get_flt(msg.json_obj, "Alt"),
                                                   get_flt(msg.json_obj, "Altitude")),
                                            Flt(0))),
                     FusedAttitude(msg.json_obj))

\* ---------------------------------------------------------------- pipeline

\* pipeline.rs:52  t.check_registered_to_transform(&definition)
Wants(i, definition) == IF i = GENERIC THEN TRUE ELSE FusedWants(definition)

\* pipeline.rs:50-55  the transformers that accept the definition, in list order.
ActiveIndices_all(definition) == Transformers

ActiveIndices_reversed(definition) ==
    LET accepts(i) == Wants(i, definition)
    IN  SelectSeq(<<FUSED, GENERIC>>, accepts)

ActiveIndices(definition) ==
    LET accepts(i) == Wants(i, definition)
    IN  SelectSeq(Transformers, accepts)

\* pipeline.rs:57  subscriptions.insert(type_id, active_indices): the list of
\* the type_id is replaced.
Subscribe_merge(type_id, active_indices) ==
    LET old == IF type_id \in DOMAIN subscriptions THEN subscriptions[type_id]
               ELSE <<>>
        listed(i) == \/ \E k \in DOMAIN old : old[k] = i
                     \/ \E j \in DOMAIN active_indices : active_indices[j] = i
    IN  Put(subscriptions, type_id, SelectSeq(Transformers, listed))

Subscribe(type_id, active_indices) == Put(subscriptions, type_id, active_indices)

\* pipeline.rs:49-58  the definition arm: every transformer is asked, the
\* subscription list of the type_id is replaced.
Register ==
    /\ pc = "frame"
    /\ frame.kind = "ArduDefinition"
    /\ LET definition == frame.definition
           type_id == definition.ardu_fmt.type_id
           active_indices == ActiveIndices(definition)
       IN  /\ schemas' = GenericRegister(definition)
           /\ topic_map' = FusedRegister(definition)
           /\ subscriptions' = Subscribe(type_id, active_indices)
           /\ accepted' = accepted \cup
                 {<<i, type_id>> : i \in {j \in {GENERIC, FUSED} : Wants(j, definition)}}
           /\ first_registered' = IF type_id \in DOMAIN first_registered
                                  THEN first_registered
                                  ELSE Put(first_registered, type_id, definition)
    /\ pc' = "read"
    /\ frame' = NoFrame
    /\ UNCHANGED <<file, readerVars, channel_map, cur, out_msgs, has_seen_pos, home,
                   current_pos, current_att, writerVars, error, nframes, ndefs,
                   last_read, records, calls, build>>

\* pipeline.rs:60  subscriptions.get(&message.type_id)
Indices(type_id) ==
    IF type_id \in DOMAIN subscriptions THEN subscriptions[type_id] ELSE <<>>

AtTransform ==
    IF pc = "frame" THEN frame.kind = "ArduMessage"
    ELSE pc = "dispatch" /\ out_msgs = <<>>

\* pipeline.rs:62  transformers[i].transform(&message) returned r: the
\* transformer's fields and the messages to write are taken from r.
Transformed(i, message, indices, r) ==
    LET last == r.out = <<>> /\ cur + 1 = Len(indices)
    IN  /\ calls' = Append(calls,
              [t |-> i, type_id |-> message.type_id, rec |-> Len(records),
               name |-> r.name, n |-> Len(r.out), panic |-> r.panic,
               topics |-> [k \in 1..Len(r.out) |-> r.out[k].topic],
               schema_names |-> [k \in 1..Len(r.out) |-> r.out[k].schema_name]])
        /\ IF r.panic
           THEN /\ pc' = "panicked"
                /\ error' = "unwrap on a None value"
                /\ UNCHANGED <<frame, cur, out_msgs, fusedVars>>
           ELSE /\ pc' = IF last THEN "read" ELSE "dispatch"
                /\ frame' = IF last THEN NoFrame ELSE frame
                /\ cur' = IF last THEN 0 ELSE cur + 1
                /\ out_msgs' = r.out
                /\ error' = error
                /\ IF i = FUSED
                   THEN /\ has_seen_pos' = r.has_seen_pos
                        /\ home' = r.home
                        /\ current_pos' = r.current_pos
                        /\ current_att' = r.current_att
                        /\ UNCHANGED topic_map
                   ELSE UNCHANGED fusedVars

\* pipeline.rs:59-62  the message arm up to one transform call: the next
\* subscribed transformer is called with the record.
Transform ==
    /\ AtTransform
    /\ LET message == frame.message
           indices == Indices(message.type_id)
       IN  IF cur >= Len(indices)
           THEN /\ pc' = "read"
                /\ frame' = NoFrame
                /\ cur' = 0
                /\ UNCHANGED <<out_msgs, fusedVars, calls, error>>
           ELSE Transformed(indices[cur + 1], message, indices,
                            IF indices[cur + 1] = GENERIC
                            THEN GenericTransform(message)
                            ELSE FusedTransform(message))
    /\ UNCHANGED <<file, readerVars, subscriptions, channel_map, genericVars,
                   writerVars, nframes, ndefs, last_read, records, accepted,
                   first_registered, build>>

\* pipeline.rs:67  !channel_map.contains_key(&key)
NeedsRegistration_always(key) == TRUE

NeedsRegistration(key) == key \notin DOMAIN channel_map

\* pipeline.rs:85  the sequence number of a fresh channel
FirstSequence == 0

\* pipeline.rs:24  sequence: u32, two limbs of 16 bits, least significant
\* first.
U32(n) == <<n % Limb, n \div Limb>>

\* pipeline.rs:101  channel_info.sequence += 1 on u32.  ovf: the sum leaves
\* u32 (the counter was u32::MAX); v: the wrapped sum.
NextSequence_stuck(sequence) == [ovf |-> FALSE, v |-> sequence]

NextSequence(sequence) ==
    [ovf |-> sequence = <<Limb - 1, Limb - 1>>,
     v |-> <<(sequence[1] + 1) % Limb,
             (sequence[2] + (sequence[1] + 1) \div Limb) % Limb>>]

\* pipeline.rs:68-72  mcap_writer.add_schema: the writer's schema table after
\* the call (an identical schema is stored once) and the id it returns.
AddSchema(name, encoding, data) ==
    LET s == [name |-> name, encoding |-> encoding, data |-> data]
        known == {k \in 1..Len(w_schemas) : w_schemas[k] = s}
    IN  IF known # {}
        THEN [table |-> w_schemas, id |-> CHOOSE k \in known : TRUE]
        ELSE [table |-> Append(w_schemas, s), id |-> Len(w_schemas) + 1]

\* pipeline.rs:67-87  the registration of a new channel key: the writer's
\* tables, the calls made and the channel map after add_schema and
\* add_channel returned and the key was inserted.
Registered(out_msg) ==
    LET key == <<out_msg.topic, out_msg.schema_name>>
        sch == AddSchema(out_msg.schema_name, out_msg.schema_encoding,
                         out_msg.schema_data)
    IN  [w_schemas |-> sch.table,
         w_channels |-> Append(w_channels,
                           [schema_id |-> sch.id, topic |-> out_msg.topic,
                            message_encoding |-> "json"]),
         add_calls |-> add_calls \o
                         << [op |-> "add_schema", key |-> key,
                             data |-> out_msg.schema_data, at |-> Len(written)],
                            [op |-> "add_channel", key |-> key,
                             data |-> sch.id, at |-> Len(written)] >>,
         channel_map |-> Put(channel_map, key,
                             [channel_id |-> Len(w_channels),
                              sequence |-> U32(FirstSequence)])]

\* pipeline.rs:64-102  one produced message: register schema and channel for
\* a new key, append the message with the channel's sequence number, count.
\* `checks` tells whether the build panics on integer overflow: at
\* sequence = u32::MAX the message is written and then line 101 panics
\* (debug) or wraps the counter to 0 (release).
WriteMsg(checks) ==
    /\ pc = "dispatch"
    /\ out_msgs # <<>>
    /\ build \in {"any", IF checks THEN "debug" ELSE "release"}
    /\ LET out_msg == Head(out_msgs)
           message == frame.message
           key == <<out_msg.topic, out_msg.schema_name>>
           fresh == NeedsRegistration(key)
           map1 == IF fresh THEN Registered(out_msg).channel_map ELSE channel_map
           channel_info == map1[key]
           next == NextSequence(channel_info.sequence)
           last == Tail(out_msgs) = <<>> /\ cur = Len(Indices(message.type_id))
       IN  /\ w_schemas' = IF fresh THEN Registered(out_msg).w_schemas ELSE w_schemas
           /\ w_channels' = IF fresh THEN Registered(out_msg).w_channels
                            ELSE w_channels
           /\ add_calls' = IF fresh THEN Registered(out_msg).add_calls ELSE add_calls
           /\ written' = Append(written,
                 [channel_id |-> channel_info.channel_id,
                  sequence |-> channel_info.sequence,
                  log_time |-> message.current_ts,
                  publish_time |-> message.current_ts,
                  payload |-> out_msg.payload,
                  key |-> key,
                  schema_data |-> out_msg.schema_data,
                  t |-> Indices(message.type_id)[cur],
                  rec |-> Len(records)])
           /\ build' = IF next.ovf THEN (IF checks THEN "debug" ELSE "release")
                       ELSE build
           /\ IF next.ovf /\ checks
              THEN /\ channel_map' = map1
                   /\ pc' = "panicked"
                   /\ error' = "attempt to add with overflow"
                   /\ UNCHANGED <<out_msgs, frame, cur>>
              ELSE /\ channel_map' = [map1 EXCEPT ![key].sequence = next.v]
                   /\ out_msgs' = Tail(out_msgs)
                   /\ pc' = IF last THEN "read" ELSE "dispatch"
                   /\ frame' = IF last THEN NoFrame ELSE frame
                   /\ cur' = IF last THEN 0 ELSE cur
                   /\ error' = error
    /\ UNCHANGED <<file, readerVars, subscriptions, genericVars, fusedVars,
                   mcap_file,
                   nframes, ndefs, last_read, records, calls, accepted,
                   first_registered>>

\* The writer calls of pipeline.rs:64-102 whose error leaves
\* process_ardupilot_file through `?`.
WriterCalls == {"add_schema", "add_channel", "write_to_known_channel"}

\* pipeline.rs:72, 79, 99  one of the writer calls for a produced message
\* fails and its error ends the session: add_schema (line 72, nothing is
\* registered), add_channel (line 79, the schema is registered, the key is
\* not inserted) or write_to_known_channel (line 99, a new key is
\* registered and inserted with sequence 0, the message is not appended and
\* line 101 is not reached).  The messages after it are never written.
WriteMsgFails(step) ==
    /\ pc = "dispatch"
    /\ out_msgs # <<>>
    /\ LET out_msg == Head(out_msgs)
           key == <<out_msg.topic, out_msg.schema_name>>
           fresh == NeedsRegistration(key)
           reg == Registered(out_msg)
       IN  /\ step \in {"add_schema", "add_channel"} => fresh
           /\ w_schemas' = IF fresh /\ step # "add_schema" THEN reg.w_schemas
                           ELSE w_schemas
           /\ add_calls' = IF fresh /\ step = "add_channel"
                           THEN SubSeq(reg.add_calls, 1, Len(add_calls) + 1)
                           ELSE IF fresh /\ step = "write_to_known_channel"
                           THEN reg.add_calls
                           ELSE add_calls
           /\ w_channels' = IF fresh /\ step = "write_to_known_channel"
                            THEN reg.w_channels ELSE w_channels
           /\ channel_map' = IF fresh /\ step = "write_to_known_channel"
                             THEN reg.channel_map ELSE channel_map
    /\ pc' = "failed"
    /\ error' = step
    /\ UNCHANGED <<frame, file, readerVars, subscriptions, cur, out_msgs,
                   genericVars, fusedVars, written, mcap_file, nframes, ndefs,
                   last_read, records, dispatchHistory, build>>

\* pipeline.rs:45-48  the Eof arm: the writer is finished, the session ends Ok.
Finish ==
    /\ pc = "frame"
    /\ frame.kind = "Eof"
    /\ pc' = "done"
    /\ UNCHANGED <<frame, file, readerVars, pipelineVars, genericVars, fusedVars,
                   writerVars, error, nframes, ndefs, last_read, records,
                   dispatchHistory, build>>

\* pipeline.rs:46  mcap_writer.finish()? fails: the session ends with its
\* error instead of Ok.
FinishFails ==
    /\ pc = "frame"
    /\ frame.kind = "Eof"
    /\ pc' = "failed"
    /\ error' = "finish"
    /\ UNCHANGED <<frame, file, readerVars, pipelineVars, genericVars, fusedVars,
                   writerVars, nframes, ndefs, last_read, records,
                   dispatchHistory, build>>

\* Inputs of a data frame of a definition: complete bodies with every value
\* combination, and bodies cut short by the end of the file.
DataInputs(definition) ==
    {<<vals, BodyLen(definition)>> : vals \in RecordValues(definition)}
      \cup {<<DefaultValues(definition), a>> : a \in TruncatedLengths(definition)}

Next ==
    \/ CreateOutput
    \/ \E step \in {"File::create", "Writer::new"} : CreateOutputFails(step)
    \/ ReadOpenFails
    \/ \E why \in HeaderFailures : ReadHeaderFails(why)
    \/ \E type_id \in TypeIds, body \in FmtBodies : ReadDefinition(type_id, body)
    \/ \E avail \in {0, FMT_BODY_LEN - 1} : ReadDefinitionTruncated(avail)
    \/ \E msg_id \in TypeIds : ReadUnknown(msg_id)
    \/ \E msg_id \in TypeIds \cap DOMAIN definitions :
         \E input \in DataInputs(definitions[msg_id]), checks \in BOOLEAN :
            ReadData(msg_id, input[1], input[2], checks)
    \/ Register
    \/ Transform
    \/ \E checks \in BOOLEAN : WriteMsg(checks)
    \/ \E step \in WriterCalls : WriteMsgFails(step)
    \/ Finish
    \/ FinishFails

Spec == Init /\ [][Next]_vars

\* ------------------------------------------------------------------ claims

WrittenOn(key) ==
    LET on(m) == m.key = key
    IN  SelectSeq(written, on)

WrittenKeys == {written[i].key : i \in DOMAIN written}

\* C1: on every channel key (topic, schema_name) the written messages carry
\* the sequence numbers 0, 1, 2, ... in write order, and the counter stored
\* for every channel equals the number of messages written to that channel
\* (so it is never reset and never moved by a write to another channel).
C1_SequencePerChannel ==
    /\ \A key \in WrittenKeys :
          LET s == WrittenOn(key)
          IN  \A j \in 1..Len(s) : s[j].sequence = U32(j - 1)
    /\ \A key \in DOMAIN channel_map :
          channel_map[key].sequence = U32(Len(WrittenOn(key)))

\* C1 witness: a channel received its second message after another channel
\* was written in between.
C1_Witness ==
    \E i, j, k \in DOMAIN written :
        /\ i < j /\ j < k
        /\ written[i].key = written[k].key
        /\ written[j].key # written[i].key
        /\ written[i].sequence = U32(0)
        /\ written[k].sequence = U32(1)
        /\ written[j].sequence = U32(0)

AddCallsFor(key, op) ==
    {c \in DOMAIN add_calls : add_calls[c].key = key /\ add_calls[c].op = op}

FirstWrite(key) ==
    CHOOSE i \in DOMAIN written :
        /\ written[i].key = key
        /\ \A j \in 1..(i - 1) : written[j].key # key

\* The session ended in a failed writer call for a message of the key.
FailedWriting(key) ==
    /\ pc = "failed"
    /\ error \in WriterCalls
    /\ key = <<Head(out_msgs).topic, Head(out_msgs).schema_name>>

\* C2: every key that was written has exactly one add_schema and one
\* add_channel call, made in that order right before the first message with
\* the key was written; all messages of a key carry one channel id and
\* different keys different ids, whatever schema bytes the messages bring.
\* No key has a second call of either kind, and the only calls for a key
\* without a written message are those of a message whose add_channel or
\* write failed and ended the session.
C2_RegisteredOnce ==
    /\ \A key \in WrittenKeys :
          /\ Cardinality(AddCallsFor(key, "add_schema")) = 1
          /\ Cardinality(AddCallsFor(key, "add_channel")) = 1
          /\ \A c \in AddCallsFor(key, "add_schema") :
                /\ c + 1 \in AddCallsFor(key, "add_channel")
                /\ add_calls[c].at = FirstWrite(key) - 1
                /\ add_calls[c].data = written[FirstWrite(key)].schema_data
    /\ \A c \in DOMAIN add_calls :
          /\ Cardinality(AddCallsFor(add_calls[c].key, add_calls[c].op)) = 1
          /\ \/ add_calls[c].key \in WrittenKeys
             \/ FailedWriting(add_calls[c].key)
    /\ Len(add_calls) = 2 * Len(w_channels)
                           + (IF pc = "failed" /\ error = "add_channel" THEN 1 ELSE 0)
    /\ \A i, j \in DOMAIN written :
          (written[i].key = written[j].key)
             <=> (written[i].channel_id = written[j].channel_id)

\* C2 witness: two messages with one key and different schema bytes were
\* written (to the same channel).
C2_Witness ==
    \E i, j \in DOMAIN written :
        /\ i < j
        /\ written[i].key = written[j].key
        /\ written[i].schema_data # written[j].schema_data

\* C3: every transform call reaches a transformer that returned true from
\* check_registered_to_transform for a definition of the record's type_id
\* earlier in the session.
C3_OnlySubscribed ==
    \A c \in DOMAIN calls : <<calls[c].t, calls[c].type_id>> \in accepted

\* C3 witness: a record of a type the fused transformer never accepted was
\* dispatched completely: the generic transformer was called for it, the
\* fused one was not, and the pipeline is back at reading.
C3_Witness ==
    /\ pc = "read"
    /\ \E c \in DOMAIN calls :
          /\ calls[c].t = GENERIC
          /\ calls[c].rec = Len(records)
          /\ <<FUSED, calls[c].type_id>> \notin accepted
          /\ \A e \in DOMAIN calls : calls[e].rec = calls[c].rec => e = c

\* Errors of the output side: a writer call for a produced message, or
\* finish().
WriterErrors == WriterCalls \cup {"finish"}

\* The pipeline took the Eof arm of pipeline.rs:45-48: it is about to call
\* finish(), has returned Ok, or finish() itself failed on the output file.
TookEofArm == pc \in {"frame", "done"} \/ (pc = "failed" /\ error = "finish")

\* C4 (as claimed): whenever the source ends inside a data record, i.e. the
\* field being decoded finds fewer bytes than its width, in any field
\* position, read returns Eof and the session goes on to finish Ok; a source
\* that is exhausted at a frame boundary yields Eof too.
C4_TruncationIsEof ==
    /\ (last_read.op = "data" /\ last_read.short > 0)
          => /\ last_read.kind = "Eof"
             /\ TookEofArm
             /\ frame.kind = "Eof"
    /\ (last_read.op = "header" /\ last_read.why = "exhausted")
          => /\ last_read.kind = "Eof"
             /\ TookEofArm

HasOwnTimeUS(r) ==
    /\ "TimeUS" \in DOMAIN r.json_obj
    /\ r.json_obj["TimeUS"].t = "int"

Suppliers(i) == {j \in 1..(i - 1) : HasOwnTimeUS(records[j])}

Latest(S) == CHOOSE j \in S : \A k \in S : k <= j

\* C5: every data record without a "TimeUS" field reports the timestamp
\* reported by the most recent earlier record that supplied its own integer
\* TimeUS, and 0 if no earlier record did.
C5_CarryForward ==
    \A i \in DOMAIN records :
        "TimeUS" \notin DOMAIN records[i].json_obj
          => records[i].current_ts =
                IF Suppliers(i) = {} THEN ZeroWord
                ELSE records[Latest(Suppliers(i))].current_ts

\* C5 witness: four records, the first with TimeUS 1, the third with
\* TimeUS 2, the second and the fourth without the field: the second reports
\* 1000 and the fourth, with two suppliers before it, reports 2000.
C5_Witness ==
    /\ Len(records) = 4
    /\ HasOwnTimeUS(records[1]) /\ records[1].json_obj["TimeUS"].v = WordOf(1)
    /\ "TimeUS" \notin DOMAIN records[2].json_obj
    /\ HasOwnTimeUS(records[3]) /\ records[3].json_obj["TimeUS"].v = WordOf(2)
    /\ "TimeUS" \notin DOMAIN records[4].json_obj
    /\ Suppliers(4) = {1, 3}
    /\ records[2].current_ts = MulU64(WordOf(1), US_TO_NS).v
    /\ records[4].current_ts = MulU64(WordOf(2), US_TO_NS).v
    /\ records[4].current_ts # records[2].current_ts

\* C6 (as claimed): every data record with an integer "TimeUS" field of
\* value v reports timestamp v * 1000, whatever timestamp was carried.
\* Stated for v >= 0 with v * 1000 below 2^64; a negative v and a larger v
\* have no u64 product at all.
C6_OwnTimestamp ==
    \A i \in DOMAIN records :
        (/\ HasOwnTimeUS(records[i])
         /\ ~records[i].json_obj["TimeUS"].neg
         /\ ~MulU64(records[i].json_obj["TimeUS"].v, US_TO_NS).ovf)
          => records[i].current_ts =
                MulU64(records[i].json_obj["TimeUS"].v, US_TO_NS).v

\* C7: a data frame whose id has no definition makes read() fail with the
\* unknown-id error, the session fails with it, and once the session has
\* failed no frame is read, no transformer called and no message written.
C7_UnknownIdFatal ==
    /\ []((last_read.op \in {"data", "unknown"}
             /\ last_read.msg_id \notin DOMAIN definitions)
            => (pc = "failed" /\ error = "Unknown msg ID"))
    /\ [][pc = "failed"
            => (pc' = "failed"
                /\ UNCHANGED <<nframes, records, calls, written, frame>>)]_vars

\* C7 witness: after frames were read and messages written, a data frame
\* with an undefined id ended the session with the error.
C7_Witness ==
    /\ pc = "failed"
    /\ last_read.op = "unknown"
    /\ last_read.msg_id \notin DOMAIN definitions
    /\ written # <<>>

\* The closed tag set of the format.
ClosedTags ==
    {"b", "B", "M", "h", "c", "H", "C", "i", "L", "I", "E", "e", "f", "n",
     "q", "Q", "d", "N", "Z"}

UnknownPositions(definition) ==
    {i \in 1..Len(definition.ardu_fmt.format_str) :
        definition.ardu_fmt.format_str[i] \notin ClosedTags}

First(S) == CHOOSE j \in S : \A k \in S : j <= k

\* Bytes of the fields before position k.
BytesBefore(definition, k) == SumTo(Widths(definition), k - 1)

ReadOfUnknownTag ==
    /\ last_read.op = "data"
    /\ last_read.msg_id \in DOMAIN definitions
    /\ UnknownPositions(definitions[last_read.msg_id]) # {}

C9_NoLabelIndexOutOfRange ==
    \A id \in DOMAIN definitions :
        (/\ Len(definitions[id].labels) # Len(definitions[id].ardu_fmt.format_str)
         /\ last_read.op = "data"
         /\ last_read.msg_id = id)
          => ~(pc = "panicked" /\ error = "index out of bounds")

FusedCallsOf(name) ==
    {c \in DOMAIN calls :
        /\ calls[c].t = FUSED
        /\ records[calls[c].rec].name = name}

\* C10: once the fused transformer has transformed a POS record, it emits
\* no message for any later GPS record: the call returns an empty list and
\* nothing of the fused transformer is written for that record.
C10_GpsSuppressedAfterPos ==
    \A g \in FusedCallsOf(GPS) :
        (\E q \in FusedCallsOf(POS) : q < g)
          => /\ calls[g].n = 0
             /\ \A w \in DOMAIN written :
                   written[w].rec = calls[g].rec => written[w].t # FUSED

\* C10 witness: after a POS record the fused transformer was called with a
\* GPS record, then an ATT record for which it emitted messages, then a
\* second GPS record with a valid latitude: both GPS calls produced nothing
\* there, while the generic transformer still wrote the last record.
C10_Witness ==
    \E q \in FusedCallsOf(POS), g1 \in FusedCallsOf(GPS),
       a \in FusedCallsOf(ATT), g2 \in FusedCallsOf(GPS) :
        /\ q < g1 /\ g1 < a /\ a < g2
        /\ calls[g1].n = 0
        /\ calls[a].n > 0
        /\ calls[g2].n = 0
        /\ AbsGt(I64ToF64(UnwrapOr(get_int(records[calls[g2].rec].json_obj, "Lat"),
                                     ZeroWord)), LatThreshold)
        /\ \E w \in DOMAIN written :
              written[w].rec = calls[g2].rec /\ written[w].t = GENERIC

\* Latitude of a record as the file holds it (1e-7 degree), 0 without one.
RecordLat(r) ==
    IF /\ "Lat" \in DOMAIN r.json_obj
       /\ r.json_obj["Lat"].t = "int"
       /\ (r.json_obj["Lat"].neg \/ ~SignBit(r.json_obj["Lat"].v))
    THEN I64ToF64(r.json_obj["Lat"].v) ELSE Flt(0)

MAP_ORIGIN == <<"/foxglove/", "map_origin">>

\* Calls of the fused transformer that emitted the world anchor.
AnchorCalls ==
    {c \in DOMAIN calls : \E k \in DOMAIN calls[c].topics :
                              calls[c].topics[k] = MAP_ORIGIN}

\* Fused calls with a GPS or POS record whose |latitude| > 0.1 degree.
ValidObservations ==
    {c \in FusedCallsOf(GPS) \cup FusedCallsOf(POS) :
        AbsGt(RecordLat(records[calls[c].rec]), LatThreshold)}

\* Those among them that are not GPS records arriving after a POS record.
UnsuppressedObservations ==
    {c \in ValidObservations :
        records[calls[c].rec].name = GPS
          => ~\E q \in FusedCallsOf(POS) : q < c}

AnchorsWritten ==
    {w \in DOMAIN written : written[w].key[1] = MAP_ORIGIN}

\* C11 (as claimed): the anchor is emitted exactly once, by the call that
\* processes the first GPS or POS record with |latitude| > 0.1 degree, and
\* never while no such record was processed.
C11_AnchorOnFirstValidObservation ==
    AnchorCalls = IF ValidObservations = {} THEN {}
                  ELSE {First(ValidObservations)}

\* C11 (amended): the anchor is emitted at most once per session, by the
\* call that processes the first position record with |latitude| > 0.1
\* degree that is not suppressed (a GPS record after a POS record is), that
\* call emits it once and first, and it is never emitted while no such
\* record was processed.
C11_AnchorOnFirstUnsuppressedObservation ==
    /\ AnchorCalls = IF UnsuppressedObservations = {} THEN {}
                     ELSE {First(UnsuppressedObservations)}
    /\ \A c \in AnchorCalls :
          /\ calls[c].topics[1] = MAP_ORIGIN
          /\ \A k \in DOMAIN calls[c].topics :
                calls[c].topics[k] = MAP_ORIGIN => k = 1
    /\ Cardinality(AnchorsWritten) <= 1
    /\ \A w \in AnchorsWritten :
          \E c \in AnchorCalls : calls[c].rec = written[w].rec

\* C11 witness: the anchor was emitted by a position record that followed
\* one with latitude 0, and a later record with a valid latitude was
\* processed without a second anchor.
C11_Witness ==
    \E a \in AnchorCalls :
        /\ \E z \in FusedCallsOf(GPS) \cup FusedCallsOf(POS) :
              z < a /\ RecordLat(records[calls[z].rec]) = Flt(0)
        /\ \E b \in UnsuppressedObservations : a < b

GenericCallsOf(rec) ==
    {c \in DOMAIN calls : calls[c].t = GENERIC /\ calls[c].rec = rec}

\* Records whose dispatch has started (the last one read may still wait).
Dispatched ==
    {r \in DOMAIN records : r < Len(records) \/ pc # "frame"}

\* Type ids whose latest definition went through the registration.
RegisteredIds ==
    {id \in DOMAIN definitions :
        ~(pc = "frame" /\ frame.kind = "ArduDefinition"
            /\ frame.definition.ardu_fmt.type_id = id)}

\* C12: the generic transformer accepts every definition (it is subscribed,
\* first in the list, to every registered type_id), and for every data
\* record it is called once, before any other transformer, and emits exactly
\* one message with topic "/ardupilot/" + name and schema_name = name, where
\* name is the display name of the definition in force when the record was
\* read.
C12_GenericOnePerRecord ==
    /\ \A id \in RegisteredIds :
          /\ <<GENERIC, id>> \in accepted
          /\ id \in DOMAIN subscriptions
          /\ Len(subscriptions[id]) >= 1
          /\ subscriptions[id][1] = GENERIC
    /\ \A r \in Dispatched :
          /\ Cardinality(GenericCallsOf(r)) = 1
          /\ \A c \in GenericCallsOf(r) :
                /\ \A e \in DOMAIN calls : calls[e].rec = r => c <= e
                /\ ~calls[c].panic
                /\ calls[c].n = 1
                /\ calls[c].topics = << <<"/ardupilot/", records[r].name>> >>
                /\ calls[c].schema_names = << records[r].name >>

\* C12 witness: after a type_id was redefined under another name, a record
\* of it was handed to the generic transformer, which emitted its message
\* under the new name; an earlier record of the id went out under the old.
C12_Witness ==
    \E c, e \in DOMAIN calls :
        /\ c < e
        /\ calls[c].t = GENERIC /\ calls[e].t = GENERIC
        /\ calls[c].type_id = calls[e].type_id
        /\ calls[c].n = 1 /\ calls[e].n = 1
        /\ calls[c].schema_names[1] # calls[e].schema_names[1]
        /\ calls[e].schema_names[1] = records[calls[e].rec].name

\* The messages one transform call produced, in the order of its result.
ProducedBy(c) ==
    [k \in 1..calls[c].n |->
        [rec |-> calls[c].rec, t |-> calls[c].t,
         key |-> <<calls[c].topics[k], calls[c].schema_names[k]>>]]

\* All messages produced by the first n transform calls, in production order.
RECURSIVE Produced(_)
Produced(n) == IF n = 0 THEN <<>> ELSE Produced(n - 1) \o ProducedBy(n)

WrittenOrder ==
    [w \in DOMAIN written |->
        [rec |-> written[w].rec, t |-> written[w].t, key |-> written[w].key]]

\* C13: the transform calls follow the records in order and, within one
\* record, the transformer list; the messages written so far are exactly
\* the messages produced so far, in production order, short only of the
\* messages of the latest call still waiting to be written (so on every
\* channel the write order is the production order); and whenever a frame
\* header is read, every message produced before it has been written.
C13_SequentialDispatch ==
    /\ [](/\ \A c, e \in DOMAIN calls :
               c < e => \/ calls[c].rec < calls[e].rec
                        \/ calls[c].rec = calls[e].rec /\ calls[c].t < calls[e].t
           /\ LET produced == Produced(Len(calls))
              IN  /\ Len(out_msgs) <= Len(produced)
                  /\ WrittenOrder =
                        SubSeq(produced, 1, Len(produced) - Len(out_msgs))
           /\ pc \in {"read", "frame"} => out_msgs = <<>>)
    /\ [][nframes' # nframes
            => /\ out_msgs = <<>>
               /\ Len(written) = Len(Produced(Len(calls)))
               /\ \A r \in DOMAIN records : GenericCallsOf(r) # {}]_vars

\* C13 witness: a record produced one generic and several fused messages,
\* they were written in that order, and a message of the next record was
\* written after them.
C13_Witness ==
    \E i \in DOMAIN written :
        /\ i + 3 \in DOMAIN written
        /\ written[i].t = GENERIC
        /\ written[i + 1].t = FUSED /\ written[i + 1].rec = written[i].rec
        /\ written[i + 2].t = FUSED /\ written[i + 2].rec = written[i].rec
        /\ written[i + 1].key # written[i + 2].key
        /\ written[i + 3].rec = written[i].rec + 1

\* ------------------------------------------------- the field codec on its own

\* The session after one definition frame with a single field of a tag of
\* the closed set was read and registered (ReadDefinition, then Register).
CodecInit ==
    \E tag \in ClosedTags :
        LET definition == MakeDefinition(1, [name |-> "TST", format_str |-> <<tag>>,
                                             labels |-> <<"V">>])
        IN  /\ pc = "read"
            /\ frame = NoFrame
            /\ file = "Open"
            /\ definitions = Put(EmptyMap, 1, definition)
            /\ last_timestamp = ZeroWord
            /\ subscriptions = Put(EmptyMap, 1, ActiveIndices(definition))
            /\ channel_map = EmptyMap
            /\ cur = 0
            /\ out_msgs = <<>>
            /\ schemas = Put(EmptyMap, 1, GenericEntry(definition))
            /\ topic_map = EmptyMap
            /\ has_seen_pos = FALSE
            /\ home = None
            /\ current_pos = Origin
            /\ current_att = Origin
            /\ w_schemas = <<>>
            /\ w_channels = <<>>
            /\ written = <<>>
            /\ mcap_file = "Created"
            /\ error = ""
            /\ nframes = 1
            /\ ndefs = 1
            /\ last_read = [NoRead EXCEPT !.op = "definition", !.msg_id = FMT_ID,
                                          !.kind = "ArduDefinition"]
            /\ records = <<>>
            /\ calls = <<>>
            /\ accepted = {<<GENERIC, 1>>}
            /\ first_registered = Put(EmptyMap, 1, definition)
            /\ add_calls = <<>>
            /\ build = "any"

\* Data frames of the definition whose field finds 0 .. width + 1 bytes.
CodecNext ==
    \/ \E vals \in RecordValues(definitions[1]),
          avail \in 0..(BodyLen(definitions[1]) + 1) :
          ReadData(1, vals, avail, FALSE)
    \/ Transform
    \/ \E checks \in BOOLEAN : WriteMsg(checks)
    \/ \E step \in WriterCalls : WriteMsgFails(step)
    \/ Finish
    \/ FinishFails

CodecSpec == CodecInit /\ [][CodecNext]_vars

\* C14: for the tag of the closed set under test, field_length reports a
\* width; a field that finds at least that many bytes decodes and moves the
\* stream by exactly that many bytes; a field that finds fewer bytes ends
\* the read in Eof (not in an error) and the session takes the Eof arm; no
\* error comes from the input side.
C14_WidthAndTruncation ==
    last_read.op = "data" =>
        LET c == definitions[last_read.msg_id].ardu_fmt.format_str[1]
            w == field_length(c)
        IN  /\ c \in ClosedTags
            /\ w.ok
            /\ last_read.avail >= w.len
                  => /\ last_read.kind = "ArduMessage"
                     /\ last_read.avail - last_read.left = w.len
                     /\ pc # "panicked"
                     /\ pc = "failed" => error \in WriterErrors
            /\ last_read.avail < w.len
                  => /\ last_read.kind = "Eof"
                     /\ TookEofArm

\* C14 witness: after a field of a fixed-width text tag decoded from
\* exactly its width, the next one found one byte less and the read
\* returned Eof.
C14_Witness ==
    /\ last_read.op = "data"
    /\ definitions[1].ardu_fmt.format_str[1] \in {"n", "N", "Z"}
    /\ records # <<>>
    /\ last_read.avail = field_length(definitions[1].ardu_fmt.format_str[1]).len - 1
    /\ last_read.kind = "Eof"
    /\ pc = "done"

\* ------------------------------------------------ euler_to_quat on its own

\* Attitude angles in centi-degrees: whole quarter turns.
QuarterTurns == {Flt(-9000), Flt(0), Flt(9000), Flt(18000), Flt(27000), Flt(36000)}

\* transformers.rs:346  the attitude the quaternion is computed from.
QuatInit ==
    /\ frame = NoFrame
    /\ file = "None"
    /\ definitions = EmptyMap
    /\ last_timestamp = ZeroWord
    /\ subscriptions = EmptyMap
    /\ channel_map = EmptyMap
    /\ cur = 0
    /\ out_msgs = <<>>
    /\ schemas = EmptyMap
    /\ topic_map = EmptyMap
    /\ has_seen_pos = FALSE
    /\ home = None
    /\ current_pos = Origin
    /\ w_schemas = <<>>
    /\ w_channels = <<>>
    /\ written = <<>>
    /\ mcap_file = "Created"
    /\ error = ""
    /\ nframes = 0
    /\ ndefs = 0
    /\ last_read = NoRead
    /\ records = <<>>
    /\ calls = <<>>
    /\ accepted = {}
    /\ first_registered = EmptyMap
    /\ add_calls = <<>>
    /\ build = "any"
    /\ pc = "attitude"
    /\ current_att \in QuarterTurns \X QuarterTurns \X QuarterTurns

\* transformers.rs:345-346  the call of euler_to_quat on the attitude; the
\* result is kept in `frame`.
EulerToQuat ==
    /\ pc = "attitude"
    /\ pc' = "rotation"
    /\ frame' = [kind |-> "Quat",
                 q |-> euler_to_quat(current_att[1], current_att[2], current_att[3])]
    /\ UNCHANGED <<file, readerVars, pipelineVars, genericVars, fusedVars,
                   writerVars, error, nframes, ndefs, last_read, records,
                   dispatchHistory, build>>

QuatNext == EulerToQuat

QuatSpec == QuatInit /\ [][QuatNext]_vars

SurdZero == Surd(0, 0, 1)
SurdOne == Surd(1, 0, 1)
SurdHalfSqrt2 == Surd(0, 1, 2)

\* x*x + y*y + z*z + w*w of a quaternion (components over one denominator).
NormSquared(q) ==
    SurdAdd(SurdAdd(SurdMul(q[1], q[1]), SurdMul(q[2], q[2])),
            SurdAdd(SurdMul(q[3], q[3]), SurdMul(q[4], q[4])))

\* C15: euler_to_quat(0,0,0) is (0,0,0,1), euler_to_quat(0,0,9000) is
\* (0,0,-sqrt(2)/2,sqrt(2)/2), and every result has norm 1 (in exact
\* arithmetic, for attitudes of whole quarter turns).
C15_EulerToQuat ==
    pc = "rotation" =>
        /\ current_att = Origin
              => /\ SurdEq(frame.q[1], SurdZero) /\ SurdEq(frame.q[2], SurdZero)
                 /\ SurdEq(frame.q[3], SurdZero) /\ SurdEq(frame.q[4], SurdOne)
        /\ current_att = <<Flt(0), Flt(0), Flt(9000)>>
              => /\ SurdEq(frame.q[1], SurdZero) /\ SurdEq(frame.q[2], SurdZero)
                 /\ SurdEq(frame.q[3], SurdNeg(SurdHalfSqrt2))
                 /\ SurdEq(frame.q[4], SurdHalfSqrt2)
        /\ SurdEq(NormSquared(frame.q), SurdOne)

\* C15 witness: the quaternion of a 90 degree yaw was computed.
C15_Witness ==
    /\ pc = "rotation"
    /\ current_att = <<Flt(0), Flt(0), Flt(9000)>>
    /\ SurdEq(frame.q[3], SurdNeg(SurdHalfSqrt2))

\* The transformers that accept a definition, in list order: the generic
\* one always, the fused one for the three names it knows.
ExpectedSubscribers(name) ==
    IF name \in {"GPS", "ATT", "POS"} THEN <<GENERIC, FUSED>> ELSE <<GENERIC>>

\* A step that registers the definition frame of type_id id.
RegistersId(id) ==
    /\ pc = "frame"
    /\ frame.kind = "ArduDefinition"
    /\ frame.definition.ardu_fmt.type_id = id

\* C16: the subscription list of every registered type_id is exactly the
\* list of transformers that accept its latest definition, whatever earlier
\* definitions of the id were accepted by; every transform call goes to a
\* transformer that accepts the definition in force for the record; and a
\* registration changes the list of its own type_id only.
C16_SubscriptionsReplaced ==
    /\ [](/\ \A id \in RegisteredIds :
                 /\ id \in DOMAIN subscriptions
                 /\ subscriptions[id] =
                       ExpectedSubscribers(definitions[id].ardu_fmt.name)
           /\ \A c \in DOMAIN calls :
                 LET expected == ExpectedSubscribers(records[calls[c].rec].name)
                 IN  \E k \in DOMAIN expected : expected[k] = calls[c].t)
    /\ [][/\ DOMAIN subscriptions \subseteq DOMAIN subscriptions'
           /\ \A id \in DOMAIN subscriptions :
                 subscriptions'[id] # subscriptions[id] => RegistersId(id)]_vars

\* C16 witness: a type_id first defined under a name the fused transformer
\* accepts was redefined under a name it rejects, and a record of the
\* redefined id was dispatched completely with a call of the generic
\* transformer only.
C16_Witness ==
    /\ pc = "read"
    /\ records # <<>>
    /\ LET id == records[Len(records)].type_id
       IN  /\ <<FUSED, id>> \in accepted
           /\ subscriptions[id] = <<GENERIC>>
           /\ \A c \in DOMAIN calls :
                 calls[c].rec = Len(records) => calls[c].t = GENERIC
           /\ GenericCallsOf(Len(records)) # {}

\* C17 (as claimed): read() returns Eof only when the source is exhausted
\* exactly at a frame boundary or when a data field's shortfall was
\* confirmed against the file length; a wrong marker, a partially present
\* header and an I/O fault while the header is read fail the session.
C17_EofOnlyOnTruncation ==
    /\ last_read.kind = "Eof"
          => \/ last_read.op = "header" /\ last_read.why = "exhausted"
             \/ last_read.op = "data" /\ last_read.short > 0
    /\ (last_read.op = "header"
           /\ last_read.why \in {"bad_magic", "partial", "io_fault"})
          => pc = "failed"

\* C18 (as claimed): a source that ends inside a record ends the session as
\* a successful end of stream: inside the 86 body bytes of a definition
\* frame as well as inside a data record (taken here with a label for every
\* tag, the label index of C9 apart).
C18_MidRecordIsEof ==
    /\ (last_read.op = "definition" /\ last_read.avail < FMT_BODY_LEN
           /\ last_read.short > 0)
          => /\ last_read.kind = "Eof"
             /\ TookEofArm
    /\ (/\ last_read.op = "data"
         /\ last_read.short > 0
         /\ last_read.short <= Len(definitions[last_read.msg_id].labels))
          => /\ last_read.kind = "Eof"
             /\ TookEofArm

POSITION_TRACE == <<"/foxglove/", "gps">>
FRAME_TRANSFORM == <<"/foxglove/", "base_link_transform">>

FusedCalls == {c \in DOMAIN calls : calls[c].t = FUSED}

\* A GPS record handed to the fused transformer after a POS record.
SuppressedCall(c) ==
    /\ records[calls[c].rec].name = GPS
    /\ \E q \in FusedCallsOf(POS) : q < c

\* Home is established once a position record that is not suppressed
\* brought a latitude beyond the threshold, that record included.
HomeEstablishedAt(c) == \E o \in UnsuppressedObservations : o <= c

\* C19: every call of the fused transformer that is not suppressed emits
\* the frame transform exactly once when home is established by then (the
\* establishing record included) and not at all otherwise; an emitted frame
\* transform is the last message of the call, after the anchor and the
\* position trace.
C19_FrameTransformWhenHome ==
    \A c \in FusedCalls :
        LET anchor == IF UnsuppressedObservations # {}
                         /\ c = First(UnsuppressedObservations)
                      THEN <<MAP_ORIGIN>> ELSE <<>>
            trace == IF records[calls[c].rec].name \in {GPS, POS}
                     THEN <<POSITION_TRACE>> ELSE <<>>
            tf == IF HomeEstablishedAt(c) THEN <<FRAME_TRANSFORM>> ELSE <<>>
        IN  /\ records[calls[c].rec].name \in {GPS, POS, ATT}
            /\ calls[c].topics =
                  IF SuppressedCall(c) THEN <<>> ELSE anchor \o trace \o tf

\* C19 witness: the record that established home produced anchor, trace
\* and frame transform in that order, and a later attitude record produced
\* the frame transform alone.
C19_Witness ==
    \E c, e \in FusedCalls :
        /\ c < e
        /\ calls[c].topics = <<MAP_ORIGIN, POSITION_TRACE, FRAME_TRANSFORM>>
        /\ records[calls[e].rec].name = ATT
        /\ calls[e].topics = <<FRAME_TRANSFORM>>

\* The schema document of a definition name and label list.
SchemaOf(name, labels) ==
    [title |-> name, properties |-> {labels[i] : i \in DOMAIN labels}]

GenericWrites == {w \in DOMAIN written : written[w].t = GENERIC}

\* C20 (as claimed): every message of the generic transformer carries the
\* display name and the schema bytes of the first definition registered for
\* the record's type_id, also after the type_id was redefined.
C20_GenericKeepsFirstDefinition ==
    \A w \in GenericWrites :
        LET first == first_registered[records[written[w].rec].type_id]
        IN  /\ written[w].key = << <<"/ardupilot/", first.ardu_fmt.name>>,
                                   first.ardu_fmt.name >>
            /\ written[w].schema_data =
                  SchemaOf(first.ardu_fmt.name, first.labels)

\* C20 (amended): every message of the generic transformer carries the
\* display name and the schema bytes of the definition in force for the
\* record, i.e. of the latest definition registered for its type_id: the
\* stored pair is replaced by every registration.  The schema registered
\* with the writer for a (topic, schema name) key stays the one brought by
\* the first message written with that key.
C20_GenericUsesLatestDefinition ==
    /\ \A w \in GenericWrites :
          LET r == records[written[w].rec]
          IN  /\ written[w].key = << <<"/ardupilot/", r.name>>, r.name >>
              /\ written[w].schema_data = SchemaOf(r.name, r.labels)
    /\ \A id \in RegisteredIds :
          schemas[id] = << definitions[id].ardu_fmt.name,
                           SchemaOf(definitions[id].ardu_fmt.name,
                                    definitions[id].labels) >>
    /\ \A key \in WrittenKeys :
          \A c \in AddCallsFor(key, "add_schema") :
             add_calls[c].data = written[FirstWrite(key)].schema_data

\* C20 witness: a type_id was redefined with another name and other labels,
\* and the generic message of a record read after the redefinition was
\* written with the new name and the new schema bytes.
C20_Witness ==
    \E w \in GenericWrites :
        LET r == records[written[w].rec]
            first == first_registered[r.type_id]
        IN  /\ first.ardu_fmt.name # r.name
            /\ first.labels # r.labels
            /\ written[w].key[2] = r.name
            /\ written[w].schema_data = SchemaOf(r.name, r.labels)
            /\ written[w].schema_data # SchemaOf(first.ardu_fmt.name, first.labels)

\* ------------------------------------------- the reader called again after Eof

\* reader.rs:171  read() is public and keeps no end-of-stream flag: a caller
\* that got Eof calls it again on the same reader.
ReadAgain ==
    /\ pc = "frame"
    /\ frame.kind = "Eof"
    /\ pc' = "read"
    /\ frame' = NoFrame
    /\ UNCHANGED <<file, readerVars, pipelineVars, genericVars, fusedVars,
                   writerVars, error, nframes, ndefs, last_read, records,
                   dispatchHistory, build>>

\* The session of Spec with a caller that reads on after Eof instead of
\* finishing.
ReaderNext ==
    \/ CreateOutput
    \/ \E step \in {"File::create", "Writer::new"} : CreateOutputFails(step)
    \/ ReadOpenFails
    \/ \E why \in HeaderFailures : ReadHeaderFails(why)
    \/ \E type_id \in TypeIds, body \in FmtBodies : ReadDefinition(type_id, body)
    \/ \E avail \in {0, FMT_BODY_LEN - 1} : ReadDefinitionTruncated(avail)
    \/ \E msg_id \in TypeIds : ReadUnknown(msg_id)
    \/ \E msg_id \in TypeIds \cap DOMAIN definitions :
         \E input \in DataInputs(definitions[msg_id]), checks \in BOOLEAN :
            ReadData(msg_id, input[1], input[2], checks)
    \/ Register
    \/ Transform
    \/ \E checks \in BOOLEAN : WriteMsg(checks)
    \/ \E step \in WriterCalls : WriteMsgFails(step)
    \/ ReadAgain

ReaderSpec == Init /\ [][ReaderNext]_vars

\* C21 (as claimed): once read() has returned Eof, at a clean frame boundary
\* or after a data record cut short, every later call of read() on the
\* reader returns Eof: no definition, no data record, no error.
C21_EofIsTerminal ==
    last_read.after_eof => last_read.kind = "Eof"

\* C22: no transform call fails its metadata lookup: every call found the
\* record's type_id in the transformer's map, for every subscribed
\* transformer of every type_id the map holds an entry, and the session
\* never panics on the unwrap.
C22_LookupNeverFails ==
    /\ \A c \in DOMAIN calls : ~calls[c].panic
    /\ \A id \in DOMAIN subscriptions :
          \A k \in DOMAIN subscriptions[id] :
             /\ subscriptions[id][k] = GENERIC => id \in DOMAIN schemas
             /\ subscriptions[id][k] = FUSED => id \in DOMAIN topic_map
    /\ error # "unwrap on a None value"

\* C22 witness: a type_id first registered under a name the fused
\* transformer rejects was redefined under a name it accepts, and a record
\* of it went through both transformers.
C22_Witness ==
    \E c, e \in DOMAIN calls :
        /\ calls[c].rec = calls[e].rec
        /\ calls[c].t = GENERIC /\ calls[e].t = FUSED
        /\ ~calls[c].panic /\ ~calls[e].panic
        /\ first_registered[calls[e].type_id].ardu_fmt.name \notin {GPS, ATT, POS}
        /\ calls[e].n > 0

CutShort == last_read.op = "data" /\ last_read.short > 0

\* C23 (as claimed): a data record cut short by the end of the source, in
\* any field position, produces no output: the read returns Eof and no
\* record, the read and every step after it leave the transform calls, the
\* written messages, the registered channels and last_timestamp as they
\* were, and the messages written are exactly those produced from the
\* complete records before it, each of which was dispatched.
C23_CutShortNoOutput ==
    /\ [](CutShort
            => /\ last_read.kind = "Eof"
               /\ frame.kind = "Eof"
               /\ TookEofArm
               /\ out_msgs = <<>>
               /\ WrittenOrder = Produced(Len(calls))
               /\ \A r \in DOMAIN records : GenericCallsOf(r) # {})
    /\ [][CutShort'
            => /\ records' = records
               /\ calls' = calls
               /\ written' = written
               /\ add_calls' = add_calls
               /\ last_timestamp' = last_timestamp]_vars

\* The same for records whose definition has a label for every tag.
C23_CutShortNoOutput_labelled ==
    /\ []((CutShort /\ last_read.short <= Len(definitions[last_read.msg_id].labels))
            => /\ last_read.kind = "Eof"
               /\ frame.kind = "Eof"
               /\ TookEofArm
               /\ out_msgs = <<>>
               /\ WrittenOrder = Produced(Len(calls))
               /\ \A r \in DOMAIN records : GenericCallsOf(r) # {})
    /\ [][CutShort'
            => /\ records' = records
               /\ calls' = calls
               /\ written' = written
               /\ add_calls' = add_calls
               /\ last_timestamp' = last_timestamp]_vars

\* A record cut short in its second field, after its TimeUS field was
\* decoded, following a complete record whose messages were written.
C23_LabelledCase ==
    /\ CutShort /\ last_read.kind = "Eof" /\ last_read.short = 2
    /\ definitions[last_read.msg_id].labels[1] = "TimeUS"
    /\ written # <<>>
    /\ last_timestamp # ZeroWord

\* ------------------------------------------- sessions past their definitions

\* FmtPacket bodies of the definition frames at the head of the file, by
\* type_id: GPS with an unsigned TimeUS, POS without TimeUS, ATT with a
\* signed TimeUS.
RecordsBodies ==
    << [name |-> GPS, format_str |-> <<"Q", "L">>, labels |-> <<"TimeUS", "Lat">>],
       [name |-> POS, format_str |-> <<"L">>, labels |-> <<"Lat", "Alt">>],
       [name |-> ATT, format_str |-> <<"q">>, labels |-> <<"TimeUS">>] >>

RecordsDefinition(type_id) == MakeDefinition(type_id, RecordsBodies[type_id])

\* The session after the three definition frames were read and registered
\* (ReadDefinition, then Register, for type_id 1, 2, 3 in this order).  The
\* frame counters start from here: the definition frames are not held
\* against MaxFrames.
RecordsInit ==
    /\ pc = "read"
    /\ frame = NoFrame
    /\ file = "Open"
    /\ definitions = [t \in DOMAIN RecordsBodies |-> RecordsDefinition(t)]
    /\ last_timestamp = ZeroWord
    /\ subscriptions = [t \in DOMAIN RecordsBodies |->
                           ActiveIndices(RecordsDefinition(t))]
    /\ channel_map = EmptyMap
    /\ cur = 0
    /\ out_msgs = <<>>
    /\ schemas = [t \in DOMAIN RecordsBodies |-> GenericEntry(RecordsDefinition(t))]
    /\ topic_map = [t \in DOMAIN RecordsBodies |-> RecordsBodies[t].name]
    /\ has_seen_pos = FALSE
    /\ home = None
    /\ current_pos = Origin
    /\ current_att = Origin
    /\ w_schemas = <<>>
    /\ w_channels = <<>>
    /\ written = <<>>
    /\ mcap_file = "Created"
    /\ error = ""
    /\ nframes = 0
    /\ ndefs = 0
    /\ last_read = [NoRead EXCEPT !.op = "definition", !.msg_id = FMT_ID,
                                  !.kind = "ArduDefinition"]
    /\ records = <<>>
    /\ calls = <<>>
    /\ accepted = {GENERIC, FUSED} \X DOMAIN RecordsBodies
    /\ first_registered = [t \in DOMAIN RecordsBodies |-> RecordsDefinition(t)]
    /\ add_calls = <<>>
    /\ build = "any"

\* TimeUS values of these sessions: 0, 1 and 2 microseconds, whose products
\* by 1000 stay inside u64.
RecordsTimes == {I64(0), WordOf(1), I64(2)}

\* Complete data records of a definition: the values of the whole-session
\* inputs whose TimeUS is one of RecordsTimes.
RecordsInputs(definition) ==
    {vals \in RecordValues(definition) :
        \A i \in DOMAIN vals :
            LabelAt(definition, i) = "TimeUS" => vals[i] \in RecordsTimes}

\* Complete GPS, POS and ATT records in any order, then the end of the file.
RecordsNext ==
    \/ \E why \in HeaderFailures : ReadHeaderFails(why)
    \/ \E msg_id \in DOMAIN definitions :
         \E vals \in RecordsInputs(definitions[msg_id]), checks \in BOOLEAN :
            ReadData(msg_id, vals, BodyLen(definitions[msg_id]), checks)
    \/ Transform
    \/ \E checks \in BOOLEAN : WriteMsg(checks)
    \/ \E step \in WriterCalls : WriteMsgFails(step)
    \/ Finish
    \/ FinishFails

RecordsSpec == RecordsInit /\ [][RecordsNext]_vars

====
